---------------------------- MODULE Spec2Model ----------------------------
(***************************************************************************)
(* Model of the data-center-news chatbot backend.                          *)
(*                                                                         *)
(*   Spec        conversation memory: ChatService.chat and                 *)
(*               ChatService._maybe_summarize_and_prune, run by threads    *)
(*               that share the relational store (services/chat_service.py)*)
(*   SpecIngest  ingestion: ScrapingScheduler.run_all_scrapers,            *)
(*               process_and_store_articles, the proactive-fetch insert    *)
(*               ChatService._store_articles and init_db's backfill        *)
(*               (scheduler.py, database/db.py, database/models.py)        *)
(***************************************************************************)
EXTENDS Integers, Sequences, FiniteSets, TLC

VARIABLES
    enabled,        \* ChatService.enabled and ChatService.client is set
    messages,       \* table "messages", in id order
    conversations,  \* table "conversations": id -> row
    nextMsgId,      \* next autoincrement id of table "messages"
    nextTurn,       \* number of chat() calls started so far, plus one
    convPool,       \* conversation ids the callers use
    turn,           \* per thread: the chat() call it is running, with the
                    \* locals of its maintenance pass (to_summarize, keep_ids,
                    \* transcript_len), what the pass did (summary_committed,
                    \* deleted) and what the call returned (path, answer,
                    \* persisted: the assistant messages it stored)
    articles,       \* table "articles", in id order
    run_lock,       \* ScrapingScheduler._run_lock: "free" or the caller holding it
    sweep,          \* per caller of run_all_scrapers: where it is, the articles
                    \* it scraped, whether this call ran the scrapers, and how
                    \* many calls it has made
    call,           \* the last call of a helper of ChatService or db.py: the
                    \* function, its arguments and what it returned
    pipe,           \* one chat() call from the router step on: its inputs, the
                    \* locals of the retrieval pipeline and the result returned
    cost,           \* CostTracker.stats and the provider calls issued
    index,          \* the embedding index: the rows of table "articles" it
                    \* concerns, the vectors of the collection, main.index_state
                    \* and the /api/reindex requests with their jobs
    sched           \* the ScrapingScheduler of main.lifespan and the calls of
                    \* start() and stop() made on it

chatVars == <<enabled, messages, conversations, nextMsgId, nextTurn, convPool, turn>>

ingestVars == <<articles, run_lock, sweep>>

fnVars == <<call, pipe, cost, index, sched>>

-----------------------------------------------------------------------------
(* Bounds *)

\* chat() calls started in one behaviour
MaxTurns == 5

\* threads that may run chat() at the same time
Threads == {1, 2}

ConvIds == {"A", "B"}

\* a user query as the API accepts it: stripped and not empty (main.py:154-157)
QueryKinds == {"short", "long"}

-----------------------------------------------------------------------------
(* Helpers *)

Max(a, b) == IF a >= b THEN a ELSE b
Min(a, b) == IF a <= b THEN a ELSE b

Range(s) == {s[i] : i \in 1..Len(s)}

RECURSIVE SumSeq(_)
SumSeq(s) == IF s = <<>> THEN 0 ELSE Head(s) + SumSeq(Tail(s))

\* the last n elements of s (Python s[-n:], n > 0)
LastN(s, n) == IF Len(s) <= n THEN s ELSE SubSeq(s, Len(s) - n + 1, Len(s))

\* all but the last n elements of s (Python s[:-n], n > 0)
ButLastN(s, n) == IF Len(s) <= n THEN <<>> ELSE SubSeq(s, 1, Len(s) - n)

-----------------------------------------------------------------------------
(* Text.  A text is known by its kind; CharLen gives its length in          *)
(* characters.  "empty" is the empty string.                                *)

CharLen(c) ==
    CASE c = "empty" -> 0
      [] c = "short" -> 40
      [] c = "long"  -> 8004

\* No text of the model has surrounding whitespace: str.strip() leaves the
\* kind of a text unchanged, and "empty" is the only text that is falsy.

\* ChatService._estimate_tokens
EstimateTokens(c) ==
    IF CharLen(c) = 0 THEN 0 ELSE Max(1, CharLen(c) \div 4)


-----------------------------------------------------------------------------
(* Conversation memory configuration                                        *)

\* the environment _maybe_summarize_and_prune reads
Env ==
    [CONVERSATION_MAX_MESSAGES   |-> 8,
     CONVERSATION_KEEP_LAST      |-> 6,
     CONVERSATION_MAX_TOKENS_EST |-> 2000]

keep_last    == Max(6, Min(Env.CONVERSATION_KEEP_LAST, 30))
max_messages == Max(keep_last + 2, Min(Env.CONVERSATION_MAX_MESSAGES, 200))
max_tokens   == Max(2000, Min(Env.CONVERSATION_MAX_TOKENS_EST, 50000))

\* the character budget of the raw-transcript fallback: combined[-6000:]
MemoryCharBudget == 6000

\* what the summarizer call can do: return bullets, return "", or raise
\* (provider error, or CostTracker.record_chat raising inside _llm)
LlmOutcomes == {"text", "empty", "raise"}

-----------------------------------------------------------------------------
(* Rows *)

NoSummary == [kind |-> "null", len |-> 0]

NoConversation == [exists |-> FALSE, audience |-> "null", memory_summary |-> NoSummary]

Message(id, cid, role, content) ==
    [id |-> id, conversation_id |-> cid, role |-> role, content |-> content,
     tokens_est |-> EstimateTokens(content)]

\* db.query(Message).filter(conversation_id == cid).order_by(Message.id.asc())
MessagesOf(cid) == SelectSeq(messages, LAMBDA m : m.conversation_id = cid)

IdsOf(ms) == {ms[i].id : i \in 1..Len(ms)}

\* ChatService._count_conversation: (message_count, token_est_total)
CountConversation(cid) ==
    LET rows == MessagesOf(cid)
    IN  <<Len(rows), SumSeq([i \in 1..Len(rows) |-> rows[i].tokens_est])>>

\* ChatService._load_recent_messages
LoadRecentMessages(cid, limit) ==
    LET lim == Max(0, Min(IF limit = 0 THEN 12 ELSE limit, 50))
    IN  IF lim = 0 THEN <<>> ELSE LastN(MessagesOf(cid), lim)

\* length of the transcript "\n".join(f"{ROLE}: {content}") of ms
RoleLen(r) == IF r = "user" THEN 4 ELSE 9
TranscriptLen(ms) ==
    LET kept  == SelectSeq(ms, LAMBDA m : CharLen(m.content) # 0)
        lines == [i \in 1..Len(kept) |-> RoleLen(kept[i].role) + 2 + CharLen(kept[i].content)]
    IN  IF Len(kept) = 0 THEN 0 ELSE SumSeq(lines) + (Len(kept) - 1)

-----------------------------------------------------------------------------
(* Threads running chat()                                                   *)

Idle ==
    [pc |-> "idle", cid |-> "A", user_msg_id |-> 0,
     to_summarize |-> {}, keep_ids |-> {}, transcript_len |-> 0,
     summary_committed |-> FALSE, deleted |-> {},
     path |-> "none", answer |-> "empty", persisted |-> <<>>]

InitChat ==
    /\ enabled \in BOOLEAN
    /\ messages = <<>>
    /\ conversations = [c \in ConvIds |-> NoConversation]
    /\ nextMsgId = 1
    /\ nextTurn = 1
    /\ convPool = {"A"}
    /\ turn = [t \in Threads |-> Idle]

\* ChatService._get_or_create_conversation (audience is not passed by the API)
GetOrCreateConversation(convs, cid) ==
    IF convs[cid].exists THEN convs
    ELSE [convs EXCEPT ![cid] = [exists |-> TRUE, audience |-> "null", memory_summary |-> NoSummary]]

\* db.add(Message(...)); db.commit()
AddMessage(ms, id, cid, role, content) ==
    Append(ms, Message(id, cid, role, content))

\* Threads are interchangeable: a call takes the first free thread.
FirstFree(t) == \A u \in Threads : turn[u].pc = "idle" => t <= u

\* Finish changes nothing but the thread's own record, so it commutes with
\* every other action: a thread that has returned is taken to finish before
\* any thread takes another step.
NoneReturned == \A u \in Threads : turn[u].pc # "returned"

\* chat(): get or create the conversation, persist the user message
PersistUser(t) ==
    /\ turn[t].pc = "idle"
    /\ NoneReturned
    /\ FirstFree(t)
    /\ nextTurn <= MaxTurns
    /\ \E cid \in convPool, q \in QueryKinds :
        /\ conversations' = GetOrCreateConversation(conversations, cid)
        /\ messages' = AddMessage(messages, nextMsgId, cid, "user", q)
        /\ turn' = [turn EXCEPT ![t] =
                        [Idle EXCEPT !.pc = "maintenance", !.cid = cid,
                                     !.user_msg_id = nextMsgId]]
    /\ nextMsgId' = nextMsgId + 1
    /\ nextTurn' = nextTurn + 1
    /\ UNCHANGED <<enabled, convPool, ingestVars, fnVars>>

\* _maybe_summarize_and_prune up to the summarizer: the trigger test and the
\* load of the rows to summarize and to keep
MaintLoad(t) ==
    /\ turn[t].pc = "maintenance"
    /\ NoneReturned
    /\ LET cid      == turn[t].cid
           cnt      == CountConversation(cid)
           all_msgs == MessagesOf(cid)
       IN  IF cnt[1] <= max_messages /\ cnt[2] <= max_tokens
           THEN turn' = [turn EXCEPT ![t].pc = "respond"]
           ELSE IF Len(all_msgs) <= keep_last
           THEN turn' = [turn EXCEPT ![t].pc = "respond"]
           ELSE IF TranscriptLen(ButLastN(all_msgs, keep_last)) = 0
           THEN turn' = [turn EXCEPT ![t].pc = "respond"]
           ELSE turn' = [turn EXCEPT ![t].pc = "summarize",
                                     ![t].to_summarize = IdsOf(ButLastN(all_msgs, keep_last)),
                                     ![t].transcript_len =
                                         TranscriptLen(ButLastN(all_msgs, keep_last)),
                                     ![t].keep_ids = IdsOf(LastN(all_msgs, keep_last))]
    /\ UNCHANGED <<enabled, messages, conversations, nextMsgId, nextTurn, convPool, ingestVars, fnVars>>

\* the crude truncation fallback: (existing + "\n" + transcript).strip()[-6000:]
RawFallback(existing, transcript_len) ==
    LET combined == IF existing.len = 0 THEN transcript_len
                    ELSE existing.len + 1 + transcript_len
    IN  [kind |-> "raw", len |-> Min(combined, MemoryCharBudget)]

\* the summarizer's bullets: at most 350 tokens of text
LlmSummary == [kind |-> "llm", len |-> 400]

\* the memory_summary a pass commits, if it commits one: the raw fallback when
\* the LLM is unavailable, the summarizer's text when the call returns some
FoldedSummary(existing, transcript_len, out) ==
    IF ~enabled THEN RawFallback(existing, transcript_len)
    ELSE IF out = "text" THEN LlmSummary
    ELSE existing

\* whether the pass commits a memory_summary
CommitsSummary(out) == ~enabled \/ out = "text"

\* a DELETE without the conversation_id filter
DeletesEveryConversation(m, cid, keep) == m.id \notin keep

\* the rows the prune's DELETE removes: conversation_id == cid and id not in keep_ids
PruneDeletes(m, cid, keep) == m.conversation_id = cid /\ m.id \notin keep

PruneNothing(ms, cid, keep) == ms

\* the prune: skipped when keep_ids is empty
Prune(ms, cid, keep) ==
    IF keep # {} THEN SelectSeq(ms, LAMBDA m : ~PruneDeletes(m, cid, keep)) ELSE ms

\* _maybe_summarize_and_prune from the summarizer's return on: fold the
\* transcript into memory_summary, then delete everything except to_keep
MaintFoldAndPrune(t) ==
    /\ turn[t].pc = "summarize"
    /\ NoneReturned
    /\ \E out \in LlmOutcomes :
        LET cid == turn[t].cid
            existing == conversations[cid].memory_summary
        IN  /\ enabled \/ out = "raise"
            /\ conversations' = [conversations EXCEPT ![cid].memory_summary =
                    FoldedSummary(existing, turn[t].transcript_len, out)]
            /\ messages' = Prune(messages, cid, turn[t].keep_ids)
            /\ turn' = [turn EXCEPT ![t].pc = "respond",
                                    ![t].summary_committed = CommitsSummary(out),
                                    ![t].deleted =
                                        IdsOf(messages) \ IdsOf(Prune(messages, cid, turn[t].keep_ids))]
    /\ UNCHANGED <<enabled, nextMsgId, nextTurn, convPool, ingestVars, fnVars>>

\* The ways chat() returns after the maintenance check:
\*   empty_corpus     total_articles == 0: the fixed reply, nothing persisted
\*   clarifier        the router's clarifying question, persisted
\*   no_coverage      no article survives retrieval and filtering: the fixed
\*                    reply, persisted
\*   synthesized      generate_response's cleaned answer, persisted if it is
\*                    not empty
\*   synthesis_error  generate_response's fixed or error reply (service
\*                    disabled, cost limit, _llm raising), persisted
Paths == {"empty_corpus", "clarifier", "no_coverage", "synthesized", "synthesis_error"}

\* The fixed replies are short texts; the synthesizer's cleaned answer is a
\* short text, or "" when _clean_rundown_answer drops every line.
AnswerKinds == {"short", "empty"}

\* the answer chat() returns on a path
PathAllowed(path, answer) ==
    CASE path = "synthesized"     -> enabled
      [] path = "synthesis_error" -> answer = "short"
      [] OTHER                    -> answer = "short"

\* whether chat() persists the answer as an assistant message on a path
PersistsAssistant(path, answer) ==
    CASE path = "empty_corpus" -> FALSE
      [] path \in {"clarifier", "no_coverage"} -> TRUE
      [] OTHER -> answer # "empty"

\* chat() after the maintenance check: corpus test, router, retrieval,
\* synthesis, persist the assistant reply, return.  Nothing here reads the
\* store in a way that changes what is written, so the steps are one action.
Respond(t) ==
    /\ turn[t].pc = "respond"
    /\ NoneReturned
    /\ \E path \in Paths, answer \in AnswerKinds :
        /\ PathAllowed(path, answer)
        /\ IF PersistsAssistant(path, answer)
           THEN /\ conversations' = GetOrCreateConversation(conversations, turn[t].cid)
                /\ messages' = AddMessage(messages, nextMsgId, turn[t].cid, "assistant", answer)
                /\ nextMsgId' = nextMsgId + 1
                /\ turn' = [turn EXCEPT ![t].pc = "returned", ![t].path = path,
                                        ![t].answer = answer, ![t].persisted = <<answer>>]
           ELSE /\ UNCHANGED <<messages, conversations, nextMsgId>>
                /\ turn' = [turn EXCEPT ![t].pc = "returned", ![t].path = path,
                                        ![t].answer = answer, ![t].persisted = <<>>]
    /\ UNCHANGED <<enabled, nextTurn, convPool, ingestVars, fnVars>>

\* the caller takes the result; the thread is free for the next call
Finish(t) ==
    /\ turn[t].pc = "returned"
    /\ turn' = [turn EXCEPT ![t] = Idle]
    /\ UNCHANGED <<enabled, messages, conversations, nextMsgId, nextTurn, convPool, ingestVars, fnVars>>

\* chat() has try/finally and no except: an exception or a killed request
\* between two commits ends the call with what is committed so far
Abandon(t) ==
    /\ turn[t].pc \in {"maintenance", "summarize", "respond"}
    /\ NoneReturned
    /\ turn' = [turn EXCEPT ![t] = Idle]
    /\ UNCHANGED <<enabled, messages, conversations, nextMsgId, nextTurn, convPool, ingestVars, fnVars>>

NextChat ==
    \E t \in Threads :
        \/ PersistUser(t)
        \/ MaintLoad(t)
        \/ MaintFoldAndPrune(t)
        \/ Respond(t)
        \/ Finish(t)
        \/ Abandon(t)

-----------------------------------------------------------------------------
(* URLs.  A URL string is known by its parts, as urlsplit returns them and  *)
(* urlunsplit joins them; the query is the list of pairs parse_qsl returns  *)
(* and urlencode writes.                                                    *)

Url(scheme, netloc, path, query, fragment) ==
    [scheme |-> scheme, netloc |-> netloc, path |-> path, query |-> query,
     fragment |-> fragment]

\* the empty string as a URL
EmptyUrl == Url("", "", "", <<>>, "")

\* str.lower() on the strings of the model
Lower(x) ==
    CASE x = "EX.com" -> "ex.com"
      [] x = "HTTPS"  -> "https"
      [] x = "B"      -> "b"
      [] x = "UTM_SOURCE" -> "utm_source"
      [] OTHER        -> x

\* the strings of the model in Python's string order
StringOrder ==
    <<"", "1", "2", "B", "UTM_SOURCE", "b", "c", "fbclid", "utm_source", "x", "y">>

Rank(x) == CHOOSE i \in 1..Len(StringOrder) : StringOrder[i] = x

drop_params ==
    {"utm_source", "utm_medium", "utm_campaign", "utm_term", "utm_content",
     "utm_id", "utm_name", "utm_reader", "utm_viz_id", "utm_pubreferrer",
     "fbclid", "gclid", "igshid", "mc_cid", "mc_eid", "mkt_tok", "ref", "ref_src"}

\* the sort key (kv[0].lower(), kv[1]), compared as Python compares tuples
KeyLess(p, q) ==
    \/ Rank(Lower(p[1])) < Rank(Lower(q[1]))
    \/ Rank(Lower(p[1])) = Rank(Lower(q[1])) /\ Rank(p[2]) < Rank(q[2])

\* list.sort(key=...): stable, so pairs with equal keys keep their order
RECURSIVE InsertSorted(_, _)
InsertSorted(sorted, p) ==
    IF sorted = <<>> THEN <<p>>
    ELSE IF KeyLess(p, Head(sorted)) THEN <<p>> \o sorted
    ELSE <<Head(sorted)>> \o InsertSorted(Tail(sorted), p)

RECURSIVE SortPairs(_)
SortPairs(pairs) ==
    IF pairs = <<>> THEN <<>>
    ELSE InsertSorted(SortPairs(SubSeq(pairs, 1, Len(pairs) - 1)), pairs[Len(pairs)])

\* str.strip() on the path strings of the model: "/a " ends with a space
TrimRight(x) == IF x = "/a " THEN "/a" ELSE x

\* url.strip(): the string ends with its last part that is not empty; the
\* queries and fragments of the model end with no space
StripUrl(u) ==
    IF u.fragment # "" \/ u.query # <<>> THEN u
    ELSE [u EXCEPT !.path = TrimRight(@)]

\* urlsplit raises ValueError on a netloc with an unclosed bracket
SplitRaises(u) == u.netloc = "[::1"

\* database.db.canonicalize_url
canonicalize_url(u) ==
    LET parts == StripUrl(u)
        kept == SelectSeq(parts.query, LAMBDA kv : Lower(kv[1]) \notin drop_params)
    IN  IF SplitRaises(parts) THEN StripUrl(u)
        ELSE Url(IF Lower(parts.scheme) = "" THEN "https" ELSE Lower(parts.scheme),
                 Lower(parts.netloc),
                 IF parts.path = "" THEN "/" ELSE parts.path,
                 SortPairs(kept),
                 "")

\* database.db.hash_url: SHA-256 of the canonical URL, taken as collision-free
hash_url(c) == [sha256 |-> c]

-----------------------------------------------------------------------------
(* Table "articles"                                                         *)

\* the columns the ORM class Article maps (database/models.py)
ArticleColumns ==
    {"id", "title", "content", "url", "source", "source_type", "published_date",
     "scraped_date", "author", "tags", "has_embedding", "embedding_id",
     "summary", "summary_model", "summary_created_at"}

\* a column value: NULL, or a value
Null == {}
Some(x) == {x}

ArticleRow(id, url, canonical_url, url_hash) ==
    [id |-> id, url |-> url, canonical_url |-> canonical_url, url_hash |-> url_hash]

NextArticleId(rows) == Len(rows) + 1

Urls(rows) == {rows[i].url : i \in 1..Len(rows)}

-----------------------------------------------------------------------------
(* Ingestion                                                                *)

\* articles one sweep scrapes
MaxBatch == 3

\* articles one proactive fetch stores
MaxFetch == 2

\* The URLs scrapers and the proactive fetch deliver (normalize_article drops
\* an article without a URL): three spellings of one article that differ
\* only by tracking parameters.
ArticleA(query) == Url("https", "ex.com", "/a", query, "")
UrlPool ==
    {ArticleA(<<>>),
     ArticleA(<< <<"utm_source", "x">> >>),
     ArticleA(<< <<"fbclid", "y">> >>)}

RECURSIVE SeqsUpTo(_, _)
SeqsUpTo(S, n) ==
    IF n = 0 THEN {<<>>}
    ELSE LET shorter == SeqsUpTo(S, n - 1)
         IN  shorter \cup {Append(q, x) : q \in shorter, x \in S}

\* a batch: the url of each article, in order
Batches == SeqsUpTo(UrlPool, MaxBatch)

\* the callers of run_all_scrapers: the scheduler's interval job, the startup
\* thread of start(), and the thread of POST /api/scrape
Callers == {"interval", "startup", "manual"}

NotCalled == [pc |-> "idle", batch |-> <<>>, scraped |-> FALSE]

InitIngest ==
    /\ articles = <<>>
    /\ run_lock = "free"
    /\ sweep = [c \in Callers |-> NotCalled]

\* evaluating Article.url_hash or Article.canonical_url, or passing them to
\* Article(...), raises when the ORM class maps no such column
MapsHashColumns == {"url_hash", "canonical_url"} \subseteq ArticleColumns

\* the query of deduplicate_articles:
\* (url_hash == h) | (url == url) | (canonical_url == canonical)
Existing(rows, url, canonical, h) ==
    \E i \in 1..Len(rows) :
        \/ rows[i].url_hash = Some(h)
        \/ rows[i].url = url
        \/ rows[i].canonical_url = Some(canonical)

\* ScrapingScheduler.deduplicate_articles: the unique articles, or raised
RECURSIVE DedupFrom(_, _, _, _)
DedupFrom(batch, rows, seen_hashes, unique_articles) ==
    IF batch = <<>> THEN [raised |-> FALSE, unique |-> unique_articles]
    ELSE LET url == Head(batch)
             canonical == canonicalize_url(url)
             h == hash_url(canonical)
         IN  IF url = EmptyUrl
             THEN DedupFrom(Tail(batch), rows, seen_hashes, unique_articles)
             ELSE IF h \in seen_hashes
             THEN DedupFrom(Tail(batch), rows, seen_hashes, unique_articles)
             ELSE IF ~MapsHashColumns
             THEN [raised |-> TRUE, unique |-> <<>>]
             ELSE IF Existing(rows, url, canonical, h)
             THEN DedupFrom(Tail(batch), rows, seen_hashes, unique_articles)
             ELSE DedupFrom(Tail(batch), rows, seen_hashes \cup {h},
                            Append(unique_articles, url))

deduplicate_articles(batch, rows) == DedupFrom(batch, rows, {}, <<>>)

\* db.add(Article(..., canonical_url=..., url_hash=...)) for each unique article
RECURSIVE AddUnique(_, _)
AddUnique(rows, unique) ==
    IF unique = <<>> THEN rows
    ELSE LET url == Head(unique)
             canonical == canonicalize_url(url)
         IN  AddUnique(Append(rows, ArticleRow(NextArticleId(rows), url,
                                               Some(canonical), Some(hash_url(canonical)))),
                       Tail(unique))

\* ScrapingScheduler.process_and_store_articles: the table afterwards.  The
\* batch is of articles the relevance filter keeps (it drops only reddit,
\* twitter and web articles of low score).  An exception anywhere is caught,
\* logged and the session rolled back.
process_and_store_articles(batch, rows) ==
    IF batch = <<>> THEN rows
    ELSE LET d == deduplicate_articles(batch, rows)
         IN  IF d.raised THEN rows
             ELSE IF d.unique = <<>> THEN rows
             ELSE IF ~MapsHashColumns THEN rows
             ELSE AddUnique(rows, d.unique)

\* ChatService._store_articles: the rows added to the session.  autoflush is
\* off, so the exists query sees committed rows only.
RECURSIVE PendingOf(_, _)
PendingOf(batch, rows) ==
    IF batch = <<>> THEN <<>>
    ELSE IF Head(batch) \in Urls(rows) THEN PendingOf(Tail(batch), rows)
    ELSE <<Head(batch)>> \o PendingOf(Tail(batch), rows)

RECURSIVE AddPlain(_, _)
AddPlain(rows, pending) ==
    IF pending = <<>> THEN rows
    ELSE AddPlain(Append(rows, ArticleRow(NextArticleId(rows), Head(pending), Null, Null)),
                  Tail(pending))

\* ChatService._store_articles: the table afterwards.  The commit fails on the
\* unique constraint of articles.url when two pending rows share a URL; the
\* session is then rolled back.
store_articles(batch, rows) ==
    LET pending == PendingOf(batch, rows)
    IN  IF Cardinality(Range(pending)) # Len(pending) THEN rows
        ELSE AddPlain(rows, pending)

\* init_db: backfill canonical_url and url_hash of the rows that miss one
Backfill(rows) ==
    [i \in 1..Len(rows) |->
        IF rows[i].url = EmptyUrl THEN rows[i]
        ELSE IF rows[i].canonical_url # Null /\ rows[i].url_hash # Null THEN rows[i]
        ELSE LET canon == IF rows[i].canonical_url # Null
                          THEN CHOOSE c \in rows[i].canonical_url : TRUE
                          ELSE canonicalize_url(rows[i].url)
                 h     == IF rows[i].url_hash # Null
                          THEN CHOOSE x \in rows[i].url_hash : TRUE
                          ELSE hash_url(canon)
             IN  [rows[i] EXCEPT !.canonical_url = Some(canon), !.url_hash = Some(h)]]

AcquireAlways(lock) == TRUE

\* threading.Lock.acquire(blocking=False): whether the lock is taken
AcquireNonBlocking(lock) == lock = "free"

\* a trigger fires: the job or thread calls run_all_scrapers
Trigger(c) ==
    /\ sweep[c].pc = "idle"
    /\ sweep' = [sweep EXCEPT ![c].pc = "called"]
    /\ UNCHANGED <<articles, run_lock, chatVars, fnVars>>

\* run_all_scrapers: take the lock, or return at once
TryAcquire(c) ==
    /\ sweep[c].pc = "called"
    /\ IF AcquireNonBlocking(run_lock)
       THEN /\ run_lock' = c
            /\ sweep' = [sweep EXCEPT ![c].pc = "scraping"]
       ELSE /\ run_lock' = run_lock
            /\ sweep' = [sweep EXCEPT ![c].pc = "skipped"]
    /\ UNCHANGED <<articles, chatVars, fnVars>>

\* run_all_scrapers: run every scraper, collect all_articles
Scrape(c) ==
    /\ sweep[c].pc = "scraping"
    /\ \E batch \in Batches :
        sweep' = [sweep EXCEPT ![c].pc = "processing", ![c].batch = batch,
                               ![c].scraped = TRUE]
    /\ UNCHANGED <<articles, run_lock, chatVars, fnVars>>

\* run_all_scrapers: process_and_store_articles, then release the lock
ProcessAndRelease(c) ==
    /\ sweep[c].pc = "processing"
    /\ articles' = process_and_store_articles(sweep[c].batch, articles)
    /\ run_lock' = "free"
    /\ sweep' = [sweep EXCEPT ![c].pc = "done", ![c].batch = <<>>]
    /\ UNCHANGED <<chatVars, fnVars>>

\* run_all_scrapers has returned; the startup thread runs once
SweepReturn(c) ==
    /\ sweep[c].pc \in {"done", "skipped"}
    /\ c # "startup"
    /\ sweep' = [sweep EXCEPT ![c] = NotCalled]
    /\ UNCHANGED <<articles, run_lock, chatVars, fnVars>>

\* a chat turn's _proactive_fetch stores what it fetched
ProactiveStore ==
    /\ \E batch \in SeqsUpTo(UrlPool, MaxFetch) \ {<<>>} :
        articles' = store_articles(batch, articles)
    /\ UNCHANGED <<run_lock, sweep, chatVars, fnVars>>

\* a process starts on the same database and runs init_db
InitDb ==
    /\ articles' = Backfill(articles)
    /\ UNCHANGED <<run_lock, sweep, chatVars, fnVars>>

NextIngest ==
    \/ \E c \in Callers :
        \/ Trigger(c)
        \/ TryAcquire(c)
        \/ Scrape(c)
        \/ ProcessAndRelease(c)
        \/ SweepReturn(c)
    \/ ProactiveStore
    \/ InitDb

-----------------------------------------------------------------------------
(* Helpers of the retrieval pipeline.  Time is counted in hours; a          *)
(* published date is known by how it is written and the instant it names.   *)

\* candidates in one list handed to a helper
MaxCandidates == 3

\* datetime.utcnow() at the call
Now == 1000

HoursPerDay == 24

\* hours the server's local time is ahead of UTC (astimezone(tz=None))
LocalOffsets == {0, 2}

\* published_date of a candidate: None, a naive ISO string or datetime (read
\* as UTC), an ISO string with an offset or "Z" naming the instant t, or a
\* string fromisoformat rejects
NoDate == [kind |-> "none", t |-> 0]
BadDate == [kind |-> "unparseable", t |-> 0]
NaiveDate(t) == [kind |-> "naive", t |-> t]
AwareDate(t) == [kind |-> "aware", t |-> t]

DateSamples ==
    {NoDate, BadDate,
     NaiveDate(Now - 7 * HoursPerDay - 1), NaiveDate(Now - 7 * HoursPerDay),
     NaiveDate(Now - 1), NaiveDate(Now + 5),
     AwareDate(Now - 7 * HoursPerDay - 1), AwareDate(Now - 1)}

\* a candidate article as retrieve_relevant_articles returns it
Candidate(url, published_date) == [url |-> url, published_date |-> published_date]

\* the URL of the i-th candidate of a list
UrlAt(i) == <<"https://ex.com/1", "https://ex.com/2", "https://ex.com/3",
              "https://ex.com/4", "https://ex.com/5">>[i]

\* ChatService._filter_by_recency_days: the value dt compared with the cutoff
ParsedDate(pd, offset) == IF pd.kind = "aware" THEN pd.t + offset ELSE pd.t

\* ChatService._filter_by_recency_days
filter_by_recency_days(as, days, offset) ==
    IF days <= 0 THEN as
    ELSE LET cutoff == Now - days * HoursPerDay
         IN  SelectSeq(as, LAMBDA a :
                 /\ a.published_date.kind \notin {"none", "unparseable"}
                 /\ ParsedDate(a.published_date, offset) >= cutoff)

\* the queries of the model, by what the window parser and the router look
\* for in them: the phrase about time and the number in it
Phrases == {"none", "last N days", "last\\s\\d\\sdays", "this week", "last month"}
Query(phrase, n) == [phrase |-> phrase, n |-> n]
Queries ==
    {Query(p, 0) : p \in Phrases \ {"last N days"}}
        \cup {Query("last N days", n) : n \in {7, 400}}

\* re.search(r"last\\s+(\\d{1,3})\\s+days", ql): the pattern is a raw string
\* with doubled backslashes, so it matches "last", a backslash, one or more
\* "s", then a group made of a backslash and one to three "d", a backslash,
\* one or more "s" and "days".  The group of a match, or "" without a match.
SearchLastNDays(q) == IF q.phrase = "last\\s\\d\\sdays" THEN "\\d" ELSE ""

\* int(m.group(1)) of a group that is not a number raises ValueError
IsNumber(group) == group \notin {"", "\\d"}

\* ChatService._parse_time_window_days: the days, or 0 for None
parse_time_window_days(q) ==
    LET group == SearchLastNDays(q)
    IN  IF group # "" THEN (IF IsNumber(group) THEN Max(1, Min(365, q.n)) ELSE 0)
        ELSE IF q.phrase = "this week" THEN 7
        ELSE IF q.phrase = "last month" THEN 30
        ELSE 0

\* the url of an item: missing or empty, two articles' URLs, and the first
\* article's URL with a leading blank
ItemUrls == {"", "https://ex.com/a", " https://ex.com/a", "https://ex.com/b"}

\* str.strip() on the URLs of the model
Strip(u) == IF u = " https://ex.com/a" THEN "https://ex.com/a" ELSE u

\* an item handed to the source binder; its title tells the items apart
Item(title, url) == [title |-> title, url |-> url, source |-> "publisher"]

TitleAt(i) == <<"t1", "t2", "t3", "t4", "t5">>[i]

\* the item lists of length n, titled by position
ItemLists(n) == {[i \in 1..n |-> Item(TitleAt(i), f[i])] : f \in [1..n -> ItemUrls]}

\* the caps callers may pass: None or 0, negative, small, over the ceiling
Caps == {-1, 0, 1, 2, 30}

DefaultMaxSources == 10

MaxSourcesCeiling == 25

\* max(1, min(int(max_sources or 10), 25))
EffectiveCap(max_sources) ==
    Max(1, Min(IF max_sources = 0 THEN DefaultMaxSources ELSE max_sources,
               MaxSourcesCeiling))

SourceOf(it) == [title |-> it.title, url |-> Strip(it.url), source |-> it.source]

BindAllItems(items, max_sources) ==
    [selected_items |-> items, sources |-> [i \in 1..Len(items) |-> SourceOf(items[i])]]

\* the loop of _dedupe_and_cap_sources
RECURSIVE BindFrom(_, _, _, _, _)
BindFrom(items, cap, seen, selected, sources) ==
    IF items = <<>> THEN [selected_items |-> selected, sources |-> sources]
    ELSE LET it == Head(items)
             url == Strip(it.url)
         IN  IF url = "" \/ url \in seen
             THEN BindFrom(Tail(items), cap, seen, selected, sources)
             ELSE IF Len(sources) + 1 >= cap
             THEN [selected_items |-> Append(selected, it),
                   sources |-> Append(sources, SourceOf(it))]
             ELSE BindFrom(Tail(items), cap, seen \cup {url},
                           Append(selected, it), Append(sources, SourceOf(it)))

\* ChatService._dedupe_and_cap_sources
dedupe_and_cap_sources(items, max_sources) ==
    BindFrom(items, EffectiveCap(max_sources), {}, <<>>, <<>>)

-----------------------------------------------------------------------------
(* Answer text.  For the citation validator a text is a sequence of         *)
(* characters; for the layout cleaner it is a sequence of lines, each known *)
(* by what the cleaner looks for in it.                                     *)

\* characters in a text handed to the citation validator
MaxTextLen == 6

Digits == {"1", "5"}

Chars == {"[", "]"} \cup Digits

DigitValue(c) == IF c = "1" THEN 1 ELSE 5

\* int() of a run of digits
RECURSIVE IntOf(_)
IntOf(ds) == IF ds = <<>> THEN 0 ELSE 10 * IntOf(ButLastN(ds, 1)) + DigitValue(ds[Len(ds)])

\* the number of digits text starts with
RECURSIVE DigitRun(_)
DigitRun(text) ==
    IF text # <<>> /\ Head(text) \in Digits THEN 1 + DigitRun(Tail(text)) ELSE 0

\* the length of the match of \[(\d+)\] at the start of text, 0 without one
MarkerLen(text) ==
    IF text = <<>> \/ Head(text) # "[" THEN 0
    ELSE LET k == DigitRun(Tail(text))
         IN  IF k >= 1 /\ Len(text) >= k + 2 /\ text[k + 2] = "]" THEN k + 2 ELSE 0

\* the n of the marker text starts with
MarkerNumber(text) == IntOf(SubSeq(text, 2, MarkerLen(text) - 1))

\* the numbers of the markers re.finditer(r"\[(\d+)\]", text) finds
RECURSIVE Markers(_)
Markers(text) ==
    IF text = <<>> THEN <<>>
    ELSE IF MarkerLen(text) > 0
    THEN <<MarkerNumber(text)>> \o Markers(SubSeq(text, MarkerLen(text) + 1, Len(text)))
    ELSE Markers(Tail(text))

\* ChatService._strip_out_of_range_citations: re.sub replaces the matches it
\* finds in one scan from the left and does not rescan what it wrote
RECURSIVE strip_out_of_range_citations(_, _)
strip_out_of_range_citations(text, max_cite) ==
    IF text = <<>> THEN text
    ELSE IF MarkerLen(text) > 0
    THEN LET n == MarkerNumber(text)
             rest == strip_out_of_range_citations(
                         SubSeq(text, MarkerLen(text) + 1, Len(text)), max_cite)
         IN  IF max_cite > 0 /\ 1 <= n /\ n <= max_cite
             THEN SubSeq(text, 1, MarkerLen(text)) \o rest
             ELSE rest
    ELSE <<Head(text)>> \o strip_out_of_range_citations(Tail(text), max_cite)

\* lines in an answer handed to the layout cleaner
MaxLines == 4

\* the lines the synthesizer writes, by their text after strip():
\*   h2_sources "## Sources", sources_colon "Sources:" (or "sources"),
\*   h3_sources "### Sources", h1_sources "# Sources",
\*   h2_what "## What changed recently", h2_themes "## Themes",
\*   h2_why "## Why it matters ...", h2_if "## If I were you", h2_other any other "## " heading,
\*   h3_theme a "### " theme heading, bullet_cited "- ... [1]",
\*   bullet_badcite "- ... [n]" with n out of range only,
\*   bullet_uncited "- ..." without a marker, prose anything else
LineKinds ==
    {"h2_sources", "sources_colon", "h3_sources", "h1_sources",
     "h2_what", "h2_themes", "h2_why", "h2_if", "h2_other", "h3_theme",
     "bullet_cited", "bullet_badcite", "bullet_uncited", "prose"}

\* a line of the answer; id is its line number in the synthesizer's text
Line(id, kind) == [id |-> id, kind |-> kind]

BlankLine == Line(0, "blank")

\* the answers of n lines
Answers(n) == {[i \in 1..n |-> Line(i, f[i])] : f \in [1..n -> LineKinds]}

\* low.startswith("## sources") or low == "sources" or low.startswith("sources:")
StartsSourcesCut(ln) == ln.kind \in {"h2_sources", "sources_colon"}

\* the index of the first line that starts the cut, 0 if none
RECURSIVE CutIndex(_, _)
CutIndex(lines, i) ==
    IF i > Len(lines) THEN 0
    ELSE IF StartsSourcesCut(lines[i]) THEN i
    ELSE CutIndex(lines, i + 1)

\* lines[:cut_idx]
CutSources(lines) ==
    IF CutIndex(lines, 1) = 0 THEN lines ELSE SubSeq(lines, 1, CutIndex(lines, 1) - 1)

\* _strip_out_of_range_citations on a line: a bullet whose markers are all
\* out of range is left without a marker
StripLine(ln) ==
    IF ln.kind = "bullet_badcite" THEN Line(ln.id, "bullet_uncited") ELSE ln

\* allowed_headers, and the section a header opens
AllowedHeaders == {"h2_what", "h2_themes", "h2_why", "h2_if"}

SectionOf(kind) ==
    IF kind = "h2_themes" THEN "themes"
    ELSE IF kind = "h2_what" THEN "what"
    ELSE IF kind = "h2_why" THEN "why"
    ELSE "if"

\* push_blank()
PushBlank(out) ==
    IF out # <<>> /\ out[Len(out)] # BlankLine THEN Append(out, BlankLine) ELSE out

CleanStart ==
    [out |-> <<>>, section |-> "none", what_bullets |-> 0, why_bullets |-> 0, if_bullets |-> 0,
     theme_count |-> 0, theme_bullets |-> 0]

\* one turn of the loop of _clean_rundown_answer over a line
CleanLine(st, ln) ==
    IF ln.kind \in AllowedHeaders \cup {"h2_other", "h2_sources"}
    THEN IF ln.kind \notin AllowedHeaders THEN st
         ELSE [st EXCEPT !.out = Append(PushBlank(st.out), ln),
                         !.section = SectionOf(ln.kind),
                         !.theme_count = IF ln.kind = "h2_themes" THEN 0 ELSE @,
                         !.theme_bullets = IF ln.kind = "h2_themes" THEN 0 ELSE @]
    ELSE IF ln.kind \in {"h3_theme", "h3_sources"}
    THEN IF st.section # "themes" \/ st.theme_count >= 3 THEN st
         ELSE [st EXCEPT !.out = Append(PushBlank(st.out), ln),
                         !.theme_count = @ + 1, !.theme_bullets = 0]
    ELSE IF ln.kind \in {"bullet_cited", "bullet_uncited"}
    THEN LET has_cite == ln.kind = "bullet_cited"
         IN  IF st.section = "what"
             THEN IF st.what_bullets >= 5 \/ ~has_cite THEN st
                  ELSE [st EXCEPT !.out = Append(@, ln), !.what_bullets = @ + 1]
             ELSE IF st.section = "why"
             THEN IF st.why_bullets >= 3 \/ ~has_cite THEN st
                  ELSE [st EXCEPT !.out = Append(@, ln), !.why_bullets = @ + 1]
             ELSE IF st.section = "if"
             THEN IF st.if_bullets >= 3 THEN st
                  ELSE [st EXCEPT !.out = Append(@, ln), !.if_bullets = @ + 1]
             ELSE IF st.section = "themes"
             THEN IF st.theme_count <= 0 \/ st.theme_bullets >= 3 \/ ~has_cite THEN st
                  ELSE [st EXCEPT !.out = Append(@, ln), !.theme_bullets = @ + 1]
             ELSE st
    ELSE st

RECURSIVE CleanLoop(_, _)
CleanLoop(st, lines) ==
    IF lines = <<>> THEN st.out ELSE CleanLoop(CleanLine(st, Head(lines)), Tail(lines))

\* ChatService._clean_rundown_answer
clean_rundown_answer(lines) ==
    LET cut == CutSources(lines)
        stripped == [i \in 1..Len(cut) |-> StripLine(cut[i])]
    IN  CleanLoop(CleanStart, stripped)

-----------------------------------------------------------------------------
(* Calls of the helpers: one call at a time, on inputs drawn from the sets  *)
(* above.                                                                   *)

\* pairs in the query of a URL handed to canonicalize_url
MaxQueryPairs == 2

QueryPairs == {<<"b", "1">>, <<"B", "1">>, <<"c", "2">>, <<"utm_source", "x">>}

UrlSamples ==
    {Url("https", host, "/a", query, fragment) :
        host \in {"ex.com", "EX.com"},
        query \in SeqsUpTo(QueryPairs, MaxQueryPairs),
        fragment \in {"", "frag"}}

NoCall == [fn |-> "none"]

InitFn == call = NoCall

\* _filter_by_recency_days(articles, days=days) on a server at the given offset
FilterCall ==
    /\ call = NoCall
    /\ \E n \in 0..MaxCandidates, days \in {0, 7}, offset \in LocalOffsets :
        \E f \in [1..n -> DateSamples] :
            LET as == [i \in 1..n |-> Candidate(UrlAt(i), f[i])]
            IN  call' = [fn |-> "filter_by_recency_days", articles |-> as,
                         days |-> days, offset |-> offset,
                         out |-> filter_by_recency_days(as, days, offset)]
    /\ UNCHANGED <<chatVars, ingestVars, index, sched, pipe, cost>>

\* _parse_time_window_days(query)
ParseWindowCall ==
    /\ call = NoCall
    /\ \E q \in Queries :
        call' = [fn |-> "parse_time_window_days", query |-> q,
                 out |-> parse_time_window_days(q)]
    /\ UNCHANGED <<chatVars, ingestVars, index, sched, pipe, cost>>

\* _dedupe_and_cap_sources(items, max_sources=max_sources)
BindCall ==
    /\ call = NoCall
    /\ \E n \in 0..MaxCandidates, max_sources \in Caps :
        \E items \in ItemLists(n) :
            call' = [fn |-> "dedupe_and_cap_sources", items |-> items,
                     max_sources |-> max_sources,
                     out |-> dedupe_and_cap_sources(items, max_sources)]
    /\ UNCHANGED <<chatVars, ingestVars, index, sched, pipe, cost>>

\* _strip_out_of_range_citations(text, max_cite=max_cite)
StripCall ==
    /\ call = NoCall
    /\ \E text \in SeqsUpTo(Chars, MaxTextLen), max_cite \in {0, 1} :
        call' = [fn |-> "strip_out_of_range_citations", text |-> text,
                 max_cite |-> max_cite,
                 out |-> strip_out_of_range_citations(text, max_cite)]
    /\ UNCHANGED <<chatVars, ingestVars, index, sched, pipe, cost>>

\* _clean_rundown_answer(answer, ...)
CleanCall ==
    /\ call = NoCall
    /\ \E n \in 0..MaxLines :
        \E lines \in Answers(n) :
            call' = [fn |-> "clean_rundown_answer", lines |-> lines,
                     out |-> clean_rundown_answer(lines)]
    /\ UNCHANGED <<chatVars, ingestVars, index, sched, pipe, cost>>

\* hash_url(canonicalize_url(url)) of two URLs
FingerprintCall ==
    /\ call = NoCall
    /\ \E u, v \in UrlSamples :
        call' = [fn |-> "hash_url", url |-> u, other |-> v,
                 out |-> hash_url(canonicalize_url(u)),
                 other_out |-> hash_url(canonicalize_url(v))]
    /\ UNCHANGED <<chatVars, ingestVars, index, sched, pipe, cost>>

\* the URLs handed to canonicalize_url alone: also with a space at the end
\* of the path, and with a netloc urlsplit rejects
UrlInputs ==
    {Url("https", host, path, query, fragment) :
        host \in {"ex.com", "EX.com", "[::1"},
        path \in {"/a", "/a "},
        query \in SeqsUpTo(QueryPairs, MaxQueryPairs),
        fragment \in {"", "frag"}}

\* canonicalize_url(url), and canonicalize_url of what it returned
CanonicalizeCall ==
    /\ call = NoCall
    /\ \E u \in UrlInputs :
        call' = [fn |-> "canonicalize_url", url |-> u,
                 raised |-> SplitRaises(StripUrl(u)),
                 out |-> canonicalize_url(u),
                 again |-> canonicalize_url(canonicalize_url(u))]
    /\ UNCHANGED <<chatVars, ingestVars, index, sched, pipe, cost>>

\* utils.relevance: the terms a text of the model can contain.  Three of
\* STRONG_PHRASES, two of KEYWORDS with their tags, and "recipe", one of the
\* scrapers' EXCLUDE_KEYWORDS
StrongTerms == <<"data center", "colocation", "hyperscale">>

KeywordTerms == << <<"sustainability", "water">>, <<"hardware", "server">> >>

ExcludedTerms == {"recipe"}

Terms == Range(StrongTerms) \cup {kw[2] : kw \in Range(KeywordTerms)} \cup ExcludedTerms

ScoreCeiling == 25

\* _merge_tags without upstream tags: the first occurrence of each tag
RECURSIVE MergeTags(_, _)
MergeTags(tags, seen) ==
    IF tags = <<>> THEN <<>>
    ELSE IF Head(tags) \in seen THEN MergeTags(Tail(tags), seen)
    ELSE <<Head(tags)>> \o MergeTags(Tail(tags), seen \cup {Head(tags)})

\* the loop over STRONG_PHRASES from phrase i on
RECURSIVE StrongLoop(_, _, _)
StrongLoop(i, t, c) ==
    IF i > Len(StrongTerms) THEN [score |-> 0, tags |-> <<>>]
    ELSE LET p == StrongTerms[i]
             rest == StrongLoop(i + 1, t, c)
         IN  [score |-> (IF p \in t THEN 6 ELSE 0) + (IF p \in c THEN 3 ELSE 0) + rest.score,
              tags |-> (IF p \in c /\ p = "data center" THEN <<"data-center">> ELSE <<>>)
                        \o rest.tags]

\* the loop over KEYWORDS from keyword i on
RECURSIVE KeywordLoop(_, _, _)
KeywordLoop(i, t, c) ==
    IF i > Len(KeywordTerms) THEN [score |-> 0, tags |-> <<>>]
    ELSE LET tag == KeywordTerms[i][1]
             k == KeywordTerms[i][2]
             rest == KeywordLoop(i + 1, t, c)
         IN  [score |-> (IF k \in t THEN 2 ELSE 0) + (IF k \in c THEN 1 ELSE 0) + rest.score,
              tags |-> (IF k \in t THEN <<tag>> ELSE <<>>)
                        \o (IF k \in c THEN <<tag>> ELSE <<>>) \o rest.tags]

\* score_and_tag_article(title, content): t and c are the terms the title
\* and the content contain
score_and_tag_article(t, c) ==
    LET strong == StrongLoop(1, t, c)
        keywords == KeywordLoop(1, t, c)
    IN  [score |-> Min(strong.score + keywords.score, ScoreCeiling),
         tags |-> MergeTags(strong.tags \o keywords.tags, {})]

\* score_and_tag_article on a title and a content
RelevanceCall ==
    /\ call = NoCall
    /\ \E t \in SUBSET Terms, c \in SUBSET Terms :
        call' = [fn |-> "score_and_tag_article", title |-> t, content |-> c,
                 out |-> score_and_tag_article(t, c)]
    /\ UNCHANGED <<chatVars, ingestVars, index, sched, pipe, cost>>

\* the articles table before a batch is stored: empty, or holding one of
\* the URLs as a proactive fetch stored it
TablesBefore == {<<>>} \cup {AddPlain(<<>>, <<u>>) : u \in UrlPool}

\* ChatService._store_articles(batch), or process_and_store_articles(batch),
\* on a table
StoreCall ==
    /\ call = NoCall
    /\ \E batch \in Batches \ {<<>>}, rows \in TablesBefore :
        \/ call' = [fn |-> "store_articles", batch |-> batch, rows |-> rows,
                    out |-> store_articles(batch, rows)]
        \/ call' = [fn |-> "process_and_store_articles", batch |-> batch, rows |-> rows,
                    out |-> process_and_store_articles(batch, rows)]
    /\ UNCHANGED <<chatVars, ingestVars, index, sched, pipe, cost>>

\* The semantic path of retrieve_relevant_articles.  A hit of the vector
\* index is a vector of a document (one per document after a sweep, one per
\* chunk after a reindex) with its distance to the query.
MaxHits == 3

\* the n_results a caller asks for
MaxK == 3

Hit(article_id, distance) == [article_id |-> article_id, distance |-> distance]

HitValues == {Hit(a, d) : a \in {1, 2}, d \in 1..3}

\* what collection.query returns: hits in ascending distance
HitLists ==
    {hs \in SeqsUpTo(HitValues, MaxHits) :
        \A i \in 1..(Len(hs) - 1) : hs[i].distance <= hs[i + 1].distance}

\* s[:n]
Take(s, n) == SubSeq(s, 1, Min(Len(s), n))

\* n_results=max(n_results, 8) of the query to the index
SearchFloor == 8

\* articles[:max(n_results, 10)]
ReturnFloor == 10

\* the loop over similar_articles: best[key], in the order the keys came
RECURSIVE BestLoop(_, _)
BestLoop(similar, best) ==
    IF similar = <<>> THEN best
    ELSE LET h == Head(similar)
             known == {i \in 1..Len(best) : best[i].article_id = h.article_id}
         IN  IF known = {} THEN BestLoop(Tail(similar), Append(best, h))
             ELSE LET i == CHOOSE j \in known : TRUE
                  IN  IF h.distance < best[i].distance
                      THEN BestLoop(Tail(similar), [best EXCEPT ![i] = h])
                      ELSE BestLoop(Tail(similar), best)

\* articles.sort(key=distance): stable
RECURSIVE InsertByDistance(_, _)
InsertByDistance(sorted, h) ==
    IF sorted = <<>> THEN <<h>>
    ELSE IF h.distance < Head(sorted).distance THEN <<h>> \o sorted
    ELSE <<Head(sorted)>> \o InsertByDistance(Tail(sorted), h)

RECURSIVE SortByDistance(_)
SortByDistance(hs) ==
    IF hs = <<>> THEN <<>>
    ELSE InsertByDistance(SortByDistance(SubSeq(hs, 1, Len(hs) - 1)), hs[Len(hs)])

\* retrieve_relevant_articles(query, n_results) when the index answers
semantic_candidates(hits, n_results) ==
    LET similar == Take(hits, Max(n_results, SearchFloor))
        best == BestLoop(similar, <<>>)
    IN  Take(SortByDistance(best), Max(n_results, ReturnFloor))

\* retrieve_relevant_articles(query, n_results) on an index with these hits
SemanticCall ==
    /\ call = NoCall
    /\ \E hits \in HitLists, k \in 1..MaxK :
        call' = [fn |-> "retrieve_relevant_articles", hits |-> hits, k |-> k,
                 out |-> semantic_candidates(hits, k)]
    /\ UNCHANGED <<chatVars, ingestVars, index, sched, pipe, cost>>

\* The cost tracker over days and months.  Days are numbered from 1 and a
\* month of the model has DaysPerMonth days; every recorded operation costs
\* one unit.
DaysPerMonth == 2

MaxDays == 4

\* units of cost the daily limit admits
DailyLimit == 2

\* units of cost the monthly limit admits
MonthlyLimit == 3

\* _get_month_key for the day
MonthOf(day) == (day - 1) \div DaysPerMonth + 1

RECURSIVE SumOver(_, _)
SumOver(f, keys) ==
    IF keys = {} THEN 0
    ELSE LET k == CHOOSE x \in keys : TRUE
         IN  f[k] + SumOver(f, keys \ {k})

\* stats['daily'] and stats['monthly'] as record_chat and record_embedding
\* leave them: a day's cost is below the daily limit before its last
\* operation, and so is the sum the monthly test looks at
TrackerStats(daily) ==
    [daily |-> daily,
     monthly |-> [m \in 1..MonthOf(MaxDays) |->
                    SumOver(daily, {d \in 1..MaxDays : MonthOf(d) = m})]]

StatsUpTo(today) ==
    {TrackerStats(daily) : daily \in
        {f \in [1..MaxDays -> 0..DailyLimit] :
            /\ \A d \in 1..MaxDays : d > today => f[d] = 0
            /\ SumOver(f, 1..MaxDays) <= MonthlyLimit}}

\* CostTracker._check_limits on the given day
check_limits_on(stats, today) ==
    LET daily_cost == stats.daily[today]
        monthly_cost == SumOver(stats.monthly, DOMAIN stats.monthly)
    IN  IF daily_cost >= DailyLimit THEN FALSE
        ELSE IF monthly_cost >= MonthlyLimit THEN FALSE
        ELSE TRUE

\* CostTracker.record_chat and record_embedding on the given day
record_on(stats, today) ==
    IF ~check_limits_on(stats, today)
    THEN [raised |-> TRUE, stats |-> stats]
    ELSE [raised |-> FALSE,
          stats |-> [daily |-> [stats.daily EXCEPT ![today] = @ + 1],
                     monthly |-> [stats.monthly EXCEPT ![MonthOf(today)] = @ + 1]]]

\* record_chat (or record_embedding) on a day, on the stats of the days before
RecordCall ==
    /\ call = NoCall
    /\ \E today \in 1..MaxDays, op \in {"record_chat", "record_embedding"} :
        \E stats \in StatsUpTo(today) :
            call' = [fn |-> op, today |-> today, stats |-> stats,
                     out |-> record_on(stats, today)]
    /\ UNCHANGED <<chatVars, ingestVars, index, sched, pipe, cost>>

\* the call has returned
CallReturn ==
    /\ call # NoCall
    /\ call' = NoCall
    /\ UNCHANGED <<chatVars, ingestVars, index, sched, pipe, cost>>

NextFn ==
    \/ FilterCall
    \/ ParseWindowCall
    \/ BindCall
    \/ StripCall
    \/ CleanCall
    \/ FingerprintCall
    \/ CanonicalizeCall
    \/ RelevanceCall
    \/ StoreCall
    \/ SemanticCall
    \/ RecordCall
    \/ CallReturn

-----------------------------------------------------------------------------
(* The corpus and retrieval.  An article of the corpus is known by what the *)
(* keyword search looks for in it and by its age.                           *)

\* articles of one kind in the corpus
MaxPerKind == 1

\* the kinds of article, by what the query finds in them:
\*   hit      a query word in the title and in the content
\*   hit_loc  as hit, and it mentions the location the query asks about
\*   bonus    no query word, but "data center" (or "mw", "campus", ...) in the title
\*   plain    no query word and no such title
DocKinds == {"hit", "hit_loc", "bonus", "plain"}

TitleHits(kind) == IF kind \in {"hit", "hit_loc"} THEN 1 ELSE 0

ContentHits(kind) == IF kind \in {"hit", "hit_loc"} THEN 1 ELSE 0

TitleBonus(kind) == kind = "bonus"

MentionsLocation(kind) == kind = "hit_loc"

\* an article: all pass _looks_like_datacenter_article
Doc(url, kind, age_days) ==
    [url |-> url, kind |-> kind, title |-> "title", source |-> "publisher",
     published_date |-> NaiveDate(Now - age_days * HoursPerDay)]

\* the URLs of the corpus
DocUrl ==
    [fresh |-> <<"https://ex.com/fresh/1", "https://ex.com/fresh/2",
                 "https://ex.com/fresh/3", "https://ex.com/fresh/4">>,
     local |-> <<"https://ex.com/local/1", "https://ex.com/local/2">>,
     mid   |-> <<"https://ex.com/mid/1", "https://ex.com/mid/2">>,
     old   |-> <<"https://ex.com/old/1", "https://ex.com/old/2">>,
     bonus |-> <<"https://ex.com/bonus/1", "https://ex.com/bonus/2">>,
     plain |-> <<"https://ex.com/plain/1", "https://ex.com/plain/2">>,
     fetched |-> <<"https://ex.com/fetched/1">>]

\* n articles of a kind and age
Docs(tag, kind, age_days, n) == [i \in 1..n |-> Doc(DocUrl[tag][i], kind, age_days)]

\* the corpora of the model: query hits of the last 14 days (none, three
\* or four), of the last 30 days, older ones, and articles without a hit
Corpora ==
    {Docs("fresh", "hit", 10, fresh) \o Docs("local", "hit_loc", 10, local)
        \o Docs("mid", "hit", 20, mid) \o Docs("old", "hit", 40, old)
        \o Docs("bonus", "bonus", 10, bonus) \o Docs("plain", "plain", 10, plain) :
        fresh \in {0, 3, 4}, local \in 0..MaxPerKind, mid \in 0..MaxPerKind,
        old \in 0..MaxPerKind, bonus \in 0..MaxPerKind, plain \in 0..MaxPerKind}

\* the score of the keyword search: 5 per query word in the title, 1 per
\* query word in the content, 2 for a construction-like title, and 15 or -8
\* for a location question
KeywordScore(d, loc_terms) ==
    5 * TitleHits(d.kind) + ContentHits(d.kind)
        + (IF TitleBonus(d.kind) THEN 2 ELSE 0)
        + (IF loc_terms THEN (IF MentionsLocation(d.kind) THEN 15 ELSE -8) ELSE 0)

\* ChatService.retrieve_relevant_articles: with a query embedding the vector
\* store's nearest neighbours, whatever their distance; without one, or
\* without neighbours, the articles of positive keyword score.  (Both lists
\* are ordered by distance or score; the order is not modelled, the lists of
\* the model being shorter than n_results.)
retrieve_relevant_articles(corpus, loc_terms, query_embedding) ==
    LET semantic == IF query_embedding THEN corpus ELSE <<>>
    IN  IF semantic # <<>> THEN semantic
        ELSE SelectSeq(corpus, LAMBDA d : KeywordScore(d, loc_terms) > 0)

\* the query matches an article: one of its words is in the title or content
Matches(d) == TitleHits(d.kind) + ContentHits(d.kind) > 0

-----------------------------------------------------------------------------
(* Cost tracking and embeddings.  Cost is counted in units: every recorded  *)
(* operation costs one unit and the daily limit is DailyLimit units.        *)

\* EMBEDDING_PROVIDER as EmbeddingService.__init__ resolves it: no embeddings,
\* the local model, or the paid API
EmbeddingProviders == {"none", "sentence-transformers", "openai"}

\* CostTracker.stats
Stats(daily) == [daily |-> daily, total_requests |-> daily]

\* CostTracker._check_limits
check_limits(stats) == stats.daily < DailyLimit

\* CostTracker.record_chat and record_embedding: the stats afterwards; the
\* call raises and leaves them alone when _check_limits fails
Record(stats) ==
    IF check_limits(stats)
    THEN [daily |-> stats.daily + 1, total_requests |-> stats.total_requests + 1]
    ELSE stats

\* ChatService and a paid EmbeddingService each hold a CostTracker of their
\* own, loaded from the same file at start
InitCost ==
    \E provider \in EmbeddingProviders, daily \in 0..DailyLimit :
        cost = [provider |-> provider, chat |-> Stats(daily), embedding |-> Stats(daily)]

\* EmbeddingService.enabled
EmbeddingEnabled == cost.provider # "none"

\* EmbeddingService.generate_embedding: whether an embedding is returned,
\* the tracker afterwards and the paid calls issued; failed tells whether
\* the provider call raised
generate_embedding(stats, failed) ==
    IF cost.provider = "none"
    THEN [embedding |-> FALSE, stats |-> stats, paid_calls |-> 0]
    ELSE IF cost.provider = "sentence-transformers"
    THEN [embedding |-> ~failed, stats |-> stats, paid_calls |-> 0]
    ELSE IF ~check_limits(stats)
    THEN [embedding |-> FALSE, stats |-> stats, paid_calls |-> 0]
    ELSE [embedding |-> ~failed, stats |-> Record(stats), paid_calls |-> 1]

\* EmbeddingService.generate_embeddings_batch: the paid calls issued (the
\* model's batches hold fewer than 100 texts, so one call)
BatchPaidCalls == IF cost.provider = "openai" THEN 1 ELSE 0

-----------------------------------------------------------------------------
(* ChatService.chat from the corpus check on, and generate_response.  The   *)
(* messages the call stores are kept in the result (persisted); the table   *)
(* is the subject of Spec.                                                  *)

Intents == {"news_update", "compare"}

MinViable == 4

WidenedDays == 30

DefaultWindowDays == 14

\* the meta of a result; 0 stands for None, present tells whether the
\* result has a "meta" key at all
Meta(time_window_days, sources_used, coverage_thin, widened) ==
    [present |-> TRUE, time_window_days |-> time_window_days,
     sources_used |-> sources_used, coverage_thin |-> coverage_thin,
     widened_to_days |-> IF widened THEN WidenedDays ELSE 0]

NoMeta ==
    [present |-> FALSE, time_window_days |-> 0, sources_used |-> 0,
     coverage_thin |-> FALSE, widened_to_days |-> 0]

\* what chat() returns, and the assistant messages it stored
Result(answer, sources, meta, persisted) ==
    [answer |-> answer, sources |-> sources, meta |-> meta, persisted |-> persisted]

NoResult == Result("none", <<>>, NoMeta, <<>>)

PipeIdle ==
    [pc |-> "idle", query |-> Query("none", 0), loc_terms |-> FALSE, corpus |-> <<>>,
     requested_days |-> 0, time_window_days |-> 0, widened |-> FALSE,
     coverage_thin |-> FALSE, articles |-> <<>>, selected |-> <<>>, sources |-> <<>>,
     survivors |-> -1, widenings |-> 0, paid_calls |-> 0,
     stats_at_start |-> <<Stats(0), Stats(0)>>, llm |-> "none", result |-> NoResult]

InitPipe == pipe = PipeIdle

\* chat(): the corpus check, the router's clarifier and the recency window
PipeStart ==
    /\ pipe.pc = "idle"
    /\ \E query \in Queries, intent \in Intents, high_ambiguity \in BOOLEAN,
          loc_terms \in BOOLEAN, corpus \in Corpora :
        LET requested_days == parse_time_window_days(query)
            default_days == IF intent = "news_update" THEN DefaultWindowDays ELSE 0
            started == [PipeIdle EXCEPT !.query = query, !.loc_terms = loc_terms,
                                        !.corpus = corpus,
                                        !.stats_at_start = <<cost.chat, cost.embedding>>]
        IN  pipe' =
              IF corpus = <<>>
              THEN [started EXCEPT !.pc = "returned",
                        !.result = Result("empty_corpus", <<>>, Meta(0, 0, FALSE, FALSE), <<>>)]
              ELSE IF high_ambiguity /\ intent = "news_update"
              THEN [started EXCEPT !.pc = "returned",
                        !.result = Result("clarifier", <<>>, Meta(0, 0, FALSE, FALSE),
                                          <<"clarifier">>)]
              ELSE [started EXCEPT !.pc = "retrieve",
                        !.requested_days = requested_days,
                        !.time_window_days =
                            IF requested_days # 0 THEN requested_days ELSE default_days]
    /\ UNCHANGED <<chatVars, ingestVars, index, sched, call, cost>>

\* chat(): retrieve the candidate pool, filter it by the window and widen
\* the window once when fewer than 4 candidates survive
PipeRetrieve ==
    /\ pipe.pc = "retrieve"
    /\ \E vector_count \in {0, 1}, failed \in BOOLEAN :
        LET emb == IF vector_count > 0
                   THEN generate_embedding(cost.embedding, failed)
                   ELSE [embedding |-> FALSE, stats |-> cost.embedding, paid_calls |-> 0]
            candidate_pool ==
                retrieve_relevant_articles(pipe.corpus, pipe.loc_terms, emb.embedding)
            days == pipe.time_window_days
            filtered == IF days # 0 THEN filter_by_recency_days(candidate_pool, days, 0)
                        ELSE candidate_pool
            widen == /\ days # 0
                     /\ Len(filtered) < MinViable
                     /\ pipe.requested_days = 0
                     /\ days < WidenedDays
        IN  /\ pipe' = [pipe EXCEPT
                  !.pc = "proactive",
                  !.survivors = IF days # 0 THEN Len(filtered) ELSE -1,
                  !.coverage_thin = widen,
                  !.widened = widen,
                  !.widenings = IF widen THEN @ + 1 ELSE @,
                  !.time_window_days = IF widen THEN WidenedDays ELSE days,
                  !.articles = IF widen
                               THEN filter_by_recency_days(candidate_pool, WidenedDays, 0)
                               ELSE filtered,
                  !.paid_calls = @ + emb.paid_calls]
            /\ cost' = [cost EXCEPT !.embedding = emb.stats]
    /\ UNCHANGED <<chatVars, ingestVars, index, sched, call>>

\* what _proactive_fetch stores when it finds something: one fresh article
\* that mentions the location
Fetched == Docs("fetched", "hit_loc", 1, 1)

\* chat(): the proactive fallback of a location question, with one more
\* retrieval when it stored something, and the reply when nothing is left
PipeProactive ==
    /\ pipe.pc = "proactive"
    /\ \E inserted \in {0, 1}, vector_count \in {0, 1}, failed \in BOOLEAN :
        LET have_loc == \E i \in 1..Len(pipe.articles) :
                            MentionsLocation(pipe.articles[i].kind)
            again == pipe.loc_terms /\ ~have_loc /\ inserted > 0
            corpus == IF again THEN pipe.corpus \o Fetched ELSE pipe.corpus
            emb == IF again /\ vector_count > 0
                   THEN generate_embedding(cost.embedding, failed)
                   ELSE [embedding |-> FALSE, stats |-> cost.embedding, paid_calls |-> 0]
            candidate_pool ==
                retrieve_relevant_articles(corpus, pipe.loc_terms, emb.embedding)
            days == pipe.time_window_days
            as == IF ~again THEN pipe.articles
                  ELSE IF days # 0 THEN filter_by_recency_days(candidate_pool, days, 0)
                  ELSE candidate_pool
            after == [pipe EXCEPT !.corpus = corpus, !.articles = as,
                                  !.paid_calls = @ + emb.paid_calls]
        IN  /\ pipe' =
                  IF as = <<>>
                  THEN [after EXCEPT !.pc = "returned",
                            !.result = Result("no_coverage", <<>>,
                                Meta(days, 0, pipe.coverage_thin, pipe.widened),
                                <<"no_coverage">>)]
                  ELSE [after EXCEPT !.pc = "select"]
            /\ cost' = [cost EXCEPT !.embedding = emb.stats]
    /\ UNCHANGED <<chatVars, ingestVars, index, sched, call>>

\* the candidates _build_theme_hints and chat() keep before they select
MaxDeduped == 50

\* chat(): theme hints (with a batch of embeddings when there are four
\* candidates or more), the selection and the bound sources.  The clusters
\* change the order of the selection only, which is not modelled.
PipeSelect ==
    /\ pipe.pc = "select"
    /\ LET deduped == BindFrom(pipe.articles, MaxDeduped, {}, <<>>, <<>>).selected_items
           batch == IF Len(deduped) >= 4 /\ EmbeddingEnabled THEN BatchPaidCalls ELSE 0
           bound == dedupe_and_cap_sources(deduped, DefaultMaxSources)
       IN  pipe' = [pipe EXCEPT !.pc = "generate",
                                !.selected = bound.selected_items,
                                !.sources = bound.sources,
                                !.paid_calls = @ + batch]
    /\ UNCHANGED <<chatVars, ingestVars, index, sched, call, cost>>

\* generate_response, and chat() storing the reply when it is not empty
PipeGenerate ==
    /\ pipe.pc = "generate"
    /\ \E out \in LlmOutcomes :
        LET response_meta == Meta(pipe.time_window_days, Len(pipe.sources),
                                  pipe.coverage_thin, pipe.widened)
            checked == Record(cost.chat)
            recorded == Record(checked)
            done(answer, sources, meta, stats, llm, calls) ==
                /\ pipe' = [pipe EXCEPT !.pc = "returned", !.llm = llm,
                                !.paid_calls = @ + calls,
                                !.result = Result(answer, sources, meta,
                                    IF answer = "empty" THEN <<>> ELSE <<answer>>)]
                /\ cost' = [cost EXCEPT !.chat = stats]
        IN  IF ~enabled
            THEN done("unavailable", <<>>, NoMeta, cost.chat, "none", 0)
            ELSE IF ~check_limits(cost.chat)
            THEN done("daily_cost_limit", <<>>, NoMeta, cost.chat, "none", 0)
            ELSE IF ~check_limits(checked)
            THEN done("cost_limit", <<>>, response_meta, checked, "none", 0)
            ELSE IF out = "raise"
            THEN done("error", pipe.sources, response_meta, recorded, out, 1)
            ELSE IF out = "empty"
            THEN done("empty", pipe.sources, response_meta, recorded, out, 1)
            ELSE done("synthesized", pipe.sources, response_meta, recorded, out, 1)
    /\ UNCHANGED <<chatVars, ingestVars, index, sched, call>>

\* chat() has returned
PipeFinish ==
    /\ pipe.pc = "returned"
    /\ pipe' = PipeIdle
    /\ UNCHANGED <<chatVars, ingestVars, index, sched, call, cost>>

NextPipe ==
    \/ PipeStart
    \/ PipeRetrieve
    \/ PipeProactive
    \/ PipeSelect
    \/ PipeGenerate
    \/ PipeFinish

-----------------------------------------------------------------------------
(* The embedding index: /api/reindex and its background job, and the       *)
(* retention sweep cleanup_old_articles.  A vector is known by its id:      *)
(* "article_<id>" (chunk -1) or "article_<id>_chunk_<n>".                   *)

\* rows of table "articles" a proactive fetch has stored
MaxDocs == 2

\* /api/reindex requests in flight
Jobs == {1, 2}

\* request.batch_size
BatchSizes == {1, 2}

VectorId(article_id, chunk) == [article_id |-> article_id, chunk |-> chunk]

\* the id an article's embedding_id column names: f"article_{a.id}"
ArticleVector(article_id) == VectorId(article_id, -1)

\* the rows as _store_articles leaves them: has_embedding=False,
\* embedding_id=None; old tells whether scraped_date is 90 days back
IndexRow(id) == [id |-> id, has_embedding |-> FALSE, embedding_id |-> Null, old |-> FALSE]

\* main.index_state
IndexState(running, processed, embedded, failed) ==
    [running |-> running, processed |-> processed, embedded |-> embedded,
     failed |-> failed]

\* a request slot: the request, its job's locals, the rows without an
\* embedding when the job began (todo) and whether every embedding and
\* index write of the job succeeded (all_ok)
NoJob ==
    [pc |-> "idle", status |-> "none", force |-> FALSE, batch_size |-> 1,
     offset |-> 0, todo |-> {}, all_ok |-> TRUE]

InitIndex ==
    index = [rows |-> [i \in 1..MaxDocs |-> IndexRow(i)],
             vectors |-> {},
             state |-> IndexState(FALSE, 0, 0, 0),
             job |-> [j \in Jobs |-> NoJob],
             removed |-> {}]

RowIds(rows) == {rows[i].id : i \in 1..Len(rows)}

\* POST /api/reindex: the handler up to thread.start()
ReindexRequest(j) ==
    /\ index.job[j].pc = "idle"
    /\ IF index.state.running
       THEN index' = [index EXCEPT !.job[j].pc = "returned", !.job[j].status = "running"]
       ELSE IF ~EmbeddingEnabled
       THEN index' = [index EXCEPT !.job[j].pc = "returned", !.job[j].status = "error"]
       ELSE \E force \in BOOLEAN, batch_size \in BatchSizes :
                index' = [index EXCEPT !.job[j] =
                            [NoJob EXCEPT !.pc = "started", !.status = "started",
                                          !.force = force, !.batch_size = batch_size]]
    /\ UNCHANGED <<chatVars, ingestVars, call, pipe, cost, sched>>

\* _run: the job resets index_state and sets its running flag
JobBegin(j) ==
    /\ index.job[j].pc = "started"
    /\ index' = [index EXCEPT
            !.state = IndexState(TRUE, 0, 0, 0),
            !.job[j].pc = "running",
            !.job[j].todo = {index.rows[i].id : i \in
                                {k \in 1..Len(index.rows) : ~index.rows[k].has_embedding}}]
    /\ UNCHANGED <<chatVars, ingestVars, call, pipe, cost, sched>>

\* the query of the job: every row when forced, the rows without an
\* embedding otherwise (request.limit is 0)
JobQuery(rows, force) ==
    IF force THEN rows ELSE SelectSeq(rows, LAMBDA r : ~r.has_embedding)

\* _run: one turn of the while loop: q.offset(offset).limit(batch_size),
\* the articles of the batch embedded and written to the index (ok: those
\* whose embedding and index write succeed), commit, offset += batch_size
JobBatch(j) ==
    /\ index.job[j].pc = "running"
    /\ LET job == index.job[j]
           q == JobQuery(index.rows, job.force)
           batch == SubSeq(q, job.offset + 1, Min(Len(q), job.offset + job.batch_size))
       IN  IF batch = <<>>
           THEN index' = [index EXCEPT !.job[j].pc = "finishing"]
           ELSE \E ok \in SUBSET RowIds(batch) :
                    index' = [index EXCEPT
                        !.rows = [i \in 1..Len(index.rows) |->
                                    IF index.rows[i].id \in ok
                                    THEN [index.rows[i] EXCEPT
                                            !.has_embedding = TRUE,
                                            !.embedding_id = Some(ArticleVector(index.rows[i].id))]
                                    ELSE index.rows[i]],
                        !.vectors = @ \cup {VectorId(id, 0) : id \in ok},
                        !.state.processed = @ + Len(batch),
                        !.state.embedded = @ + Cardinality(ok),
                        !.job[j].offset = @ + job.batch_size,
                        !.job[j].all_ok = @ /\ ok = RowIds(batch)]
    /\ UNCHANGED <<chatVars, ingestVars, call, pipe, cost, sched>>

\* _run: the finally clause clears the running flag
JobEnd(j) ==
    /\ index.job[j].pc = "finishing"
    /\ index' = [index EXCEPT !.state.running = FALSE, !.job[j].pc = "done"]
    /\ UNCHANGED <<chatVars, ingestVars, call, pipe, cost, sched>>

\* the request has been answered and its job, if any, is over
JobReturn(j) ==
    /\ index.job[j].pc \in {"returned", "done"}
    /\ index' = [index EXCEPT !.job[j] = NoJob]
    /\ UNCHANGED <<chatVars, ingestVars, call, pipe, cost, sched>>

\* time passes: the oldest row that is not yet 90 days old becomes so
Age ==
    /\ \E i \in 1..Len(index.rows) :
        /\ ~index.rows[i].old
        /\ \A k \in (i + 1)..Len(index.rows) : index.rows[k].old
        /\ index' = [index EXCEPT !.rows[i].old = TRUE]
    /\ UNCHANGED <<chatVars, ingestVars, call, pipe, cost, sched>>

\* ScrapingScheduler.cleanup_old_articles
cleanup_old_articles ==
    /\ LET old_articles == SelectSeq(index.rows, LAMBDA r : r.old)
       IN  /\ old_articles # <<>>
           /\ index' = [index EXCEPT
                  !.vectors = @ \ UNION {old_articles[i].embedding_id :
                                            i \in 1..Len(old_articles)},
                  !.rows = SelectSeq(@, LAMBDA r : ~r.old),
                  !.removed = @ \cup RowIds(old_articles)]
    /\ UNCHANGED <<chatVars, ingestVars, call, pipe, cost, sched>>

\* the candidates the semantic path can return: one for every vector of the
\* collection, built from the vector's metadata
SemanticCandidates == {v.article_id : v \in index.vectors}

NextIndex ==
    \/ \E j \in Jobs :
        \/ ReindexRequest(j)
        \/ JobBegin(j)
        \/ JobBatch(j)
        \/ JobEnd(j)
        \/ JobReturn(j)
    \/ Age
    \/ cleanup_old_articles

-----------------------------------------------------------------------------
(* The lifecycle of the ScrapingScheduler main.lifespan constructs.         *)

\* calls of start() and stop() in one behaviour
MaxCalls == 6

\* the object after __init__: the BackgroundScheduler is set up and not
\* started, and __init__ assigns no is_running attribute
InitSched ==
    sched = [is_running |-> "unset", scheduler_running |-> FALSE,
             initial_sweeps |-> 0, log |-> <<>>]

Logged(op, outcome) == [op |-> op, outcome |-> outcome]

\* ScrapingScheduler.start(); reading an attribute that was never assigned
\* raises AttributeError
start ==
    /\ Len(sched.log) < MaxCalls
    /\ sched' =
         IF sched.is_running = "unset"
         THEN [sched EXCEPT !.log = Append(@, Logged("start", "raised"))]
         ELSE IF sched.is_running = "true"
         THEN [sched EXCEPT !.log = Append(@, Logged("start", "noop"))]
         ELSE [sched EXCEPT !.is_running = "true", !.scheduler_running = TRUE,
                            !.initial_sweeps = @ + 1,
                            !.log = Append(@, Logged("start", "started"))]
    /\ UNCHANGED <<chatVars, ingestVars, call, pipe, cost, index>>

\* ScrapingScheduler.stop()
stop ==
    /\ Len(sched.log) < MaxCalls
    /\ sched' =
         IF sched.is_running = "unset"
         THEN [sched EXCEPT !.log = Append(@, Logged("stop", "raised"))]
         ELSE IF sched.is_running = "false"
         THEN [sched EXCEPT !.log = Append(@, Logged("stop", "noop"))]
         ELSE [sched EXCEPT !.is_running = "false", !.scheduler_running = FALSE,
                            !.log = Append(@, Logged("stop", "stopped"))]
    /\ UNCHANGED <<chatVars, ingestVars, call, pipe, cost, index>>

NextLifecycle ==
    \/ start
    \/ stop


-----------------------------------------------------------------------------
(* Specifications *)

vars == <<chatVars, ingestVars, fnVars>>

\* a deployment without embeddings whose trackers have recorded nothing
FreshCost == cost = [provider |-> "none", chat |-> Stats(0), embedding |-> Stats(0)]

Init == InitChat /\ InitIngest /\ InitFn /\ InitPipe /\ FreshCost /\ InitIndex /\ InitSched

\* any embedding provider, and trackers anywhere up to the daily limit
InitPipeline ==
    InitChat /\ InitIngest /\ InitFn /\ InitPipe /\ InitCost /\ InitIndex /\ InitSched

\* a store that earlier turns have filled: conversation A holds keep_last
\* messages, conversation B one more and a memory summary
StoredBefore ==
    [i \in 1..(2 * keep_last + 1) |->
        Message(i, IF i <= keep_last THEN "A" ELSE "B",
                IF i % 2 = 1 THEN "user" ELSE "assistant", "short")]

\* the turns left after those that filled the store
TurnsBefore == 2

InitTwoConversations ==
    /\ enabled \in BOOLEAN
    /\ messages = StoredBefore
    /\ conversations =
          [c \in ConvIds |->
              [exists |-> TRUE, audience |-> "null",
               memory_summary |-> IF c = "B" THEN LlmSummary ELSE NoSummary]]
    /\ nextMsgId = Len(StoredBefore) + 1
    /\ nextTurn = 1 + TurnsBefore
    /\ convPool = ConvIds
    /\ turn = [t \in Threads |-> Idle]
    /\ InitIngest /\ InitFn /\ InitPipe /\ FreshCost /\ InitIndex /\ InitSched

\* a deployment without embeddings or with the local model, its trackers
\* empty (the chat service plays no part in indexing)
InitIndexing ==
    /\ InitChat /\ enabled /\ InitIngest /\ InitFn /\ InitPipe /\ InitIndex /\ InitSched
    /\ \E provider \in {"none", "sentence-transformers"} :
          cost = [provider |-> provider, chat |-> Stats(0), embedding |-> Stats(0)]

\* conversation memory: chat turns on a store nothing else writes
Spec == Init /\ [][NextChat]_vars

\* conversation memory: turns on two conversations
SpecTwoConversations == InitTwoConversations /\ [][NextChat]_vars

\* ingestion: sweeps, proactive-fetch inserts and init_db on the articles table
SpecIngest == Init /\ [][NextIngest]_vars

\* the helpers of the retrieval pipeline, the answer cleaner and db.py
SpecFn == Init /\ [][NextFn]_vars

\* chat() from the corpus check on, with the cost trackers
SpecPipe == InitPipeline /\ [][NextPipe]_vars

\* /api/reindex, its jobs and the retention sweep
SpecIndex == InitIndexing /\ [][NextIndex]_vars

\* start() and stop() on the scheduler of the application
SpecLifecycle == Init /\ [][NextLifecycle]_vars

-----------------------------------------------------------------------------
(* Conversation memory: claims                                              *)

Stored(id) == \E i \in 1..Len(messages) : messages[i].id = id

TokenSum(cid) == CountConversation(cid)[2]

\* thread t's maintenance pass ends in this step (it returns to chat())
PassEnds(t) ==
    /\ turn[t].pc \in {"maintenance", "summarize"}
    /\ turn'[t].pc = "respond"

\* thread t's maintenance pass issues its DELETE in this step
PassPrunes(t) ==
    /\ turn[t].pc = "summarize"
    /\ turn'[t].pc = "respond"

\* C1: every maintenance pass that deleted messages committed, in that same
\* pass, a memory_summary that folds them in (the summarizer's text, or the
\* raw transcript when the summarizer call failed).
C1_DeletedOnlyWhenFolded ==
    \A t \in Threads : turn[t].deleted # {} => turn[t].summary_committed

\* C2: every message a maintenance pass deletes belongs to the range it
\* summarized, whatever the other turn appended after the pass loaded the rows.
C2_DeletesOnlySummarized ==
    \A t \in Threads : turn[t].deleted \subseteq turn[t].to_summarize

\* C3: the user message of a turn is stored if and only if the assistant
\* message of the same turn is stored; stated for a turn that has returned.
C3_PairAtomic ==
    \A t \in Threads :
        turn[t].pc = "returned" =>
            (Stored(turn[t].user_msg_id) <=> turn[t].persisted # <<>>)

\* C4 as claimed: after every maintenance pass the conversation's message
\* count is at most max_messages and its token sum is at most max_tokens.
C4_BoundedAfterEveryPass ==
    [][\A t \in Threads :
          PassEnds(t) =>
              /\ Len(MessagesOf(turn[t].cid))' <= max_messages
              /\ TokenSum(turn[t].cid)' <= max_tokens]_vars

\* C4 as amended: after every maintenance pass that prunes, the conversation's
\* message count is at most keep_last, hence at most max_messages; the token
\* sum of the retained messages is not bounded.
C4_CountBoundedAfterPrune ==
    [][\A t \in Threads :
          PassPrunes(t) =>
              /\ Len(MessagesOf(turn[t].cid))' <= keep_last
              /\ keep_last <= max_messages]_vars

\* C4 witness: a pass has just pruned a conversation down to keep_last
\* messages whose token sum still exceeds max_tokens.
C4_Witness ==
    \E t \in Threads :
        /\ turn[t].pc = "respond"
        /\ turn[t].deleted # {}
        /\ Len(MessagesOf(turn[t].cid)) = keep_last
        /\ TokenSum(turn[t].cid) > max_tokens

\* C5: once more than max_messages messages have been inserted into the
\* conversation through chat turns, a turn that returns (with no other turn in
\* flight) leaves at most keep_last raw messages and a non-empty memory_summary.
C5_PrunedAndSummarized ==
    \A t \in Threads :
        /\ turn[t].pc = "returned"
        /\ \A u \in Threads \ {t} : turn[u].pc = "idle"
        /\ nextMsgId - 1 > max_messages
        => /\ Len(MessagesOf(turn[t].cid)) <= keep_last
           /\ conversations[turn[t].cid].memory_summary.kind # "null"

\* C6: a pass that prunes retains exactly the last keep_last messages of the
\* conversation, in append order, and every other step only appends.
C6_PruneKeepsLastAndOnlyAppends ==
    [][\A c \in ConvIds :
          IF \E t \in Threads : PassPrunes(t) /\ turn[t].cid = c
          THEN MessagesOf(c)' = LastN(MessagesOf(c), keep_last)
          ELSE /\ Len(MessagesOf(c)') >= Len(MessagesOf(c))
               /\ SubSeq(MessagesOf(c)', 1, Len(MessagesOf(c))) = MessagesOf(c)]_vars

\* C10: a turn that returns a result has persisted its user message, run the
\* maintenance check, and persisted exactly one assistant message whose
\* content is the returned answer, on every return path.
C10_ReturnPersistsAnswer ==
    \A t \in Threads :
        turn[t].pc = "returned" =>
            /\ turn[t].user_msg_id # 0
            /\ turn[t].persisted = <<turn[t].answer>>

-----------------------------------------------------------------------------
(* Ingestion: claims                                                        *)

\* the body of run_all_scrapers is running in caller c
InProgress(c) == sweep[c].pc \in {"scraping", "processing"}

\* C7: at most one caller is inside the body of run_all_scrapers at any time;
\* a caller that finds a sweep in progress when it tries the lock returns
\* without having scraped, and once skipped it only returns: it never enters
\* the body later.
C7_OneSweepSkipNotQueued ==
    [][/\ \A c, d \in Callers : (InProgress(c) /\ InProgress(d))' => c = d
       /\ \A c \in Callers :
            /\ (/\ sweep[c].pc = "called"
                /\ sweep'[c].pc # "called"
                /\ \E d \in Callers \ {c} : InProgress(d))
               => (sweep'[c].pc = "skipped" /\ ~sweep'[c].scraped)
            /\ sweep[c].pc = "skipped"
               => (sweep'[c] = sweep[c] \/ sweep'[c] = NotCalled)]_vars

C7_Witness ==
    \E c, d \in Callers :
        /\ sweep[c].pc = "processing"
        /\ sweep[c].batch # <<>>
        /\ sweep[d].pc = "skipped"
        /\ ~sweep[d].scraped

\* C8: every stored document has url_hash = hash_url(canonicalize_url(url)),
\* and no two stored documents share a url_hash.
C8_HashOfCanonicalAndUnique ==
    /\ \A i \in 1..Len(articles) :
        articles[i].url_hash = Some(hash_url(canonicalize_url(articles[i].url)))
    /\ \A i, j \in 1..Len(articles) :
        articles[i].url_hash = articles[j].url_hash => i = j

\* C9: a sweep that ingests documents whose URLs differ only by tracking
\* parameters into an empty store leaves exactly one stored document.
C9_VariantsYieldOneDocument ==
    [][\A c \in Callers :
        (/\ sweep[c].pc = "processing"
         /\ sweep'[c].pc = "done"
         /\ sweep[c].batch # <<>>
         /\ articles = <<>>)
        => Len(articles') = 1]_vars

-----------------------------------------------------------------------------
(* Helpers of the retrieval pipeline: claims                                *)

\* the instant a published date names lies in [now - days, now]
InWindow(pd, days) ==
    /\ pd.kind \in {"naive", "aware"}
    /\ Now - days * HoursPerDay <= pd.t
    /\ pd.t <= Now

\* C13: _filter_by_recency_days with days > 0 returns, in input order,
\* exactly the candidates published in [now - days, now]; candidates without
\* a date, with an unparseable date, older than the cutoff or dated after now
\* are dropped.
C13_FilterKeepsExactlyWindow ==
    (call.fn = "filter_by_recency_days" /\ call.days > 0)
        => call.out = SelectSeq(call.articles,
                                LAMBDA a : InWindow(a.published_date, call.days))

\* the index of an item in a list whose titles are distinct
IndexOf(items, it) == CHOOSE i \in 1..Len(items) : items[i] = it

\* the items that are the first of the list with their URL; Same tells when
\* two URLs count as one
FirstOccurrences(items, Same(_, _)) ==
    SelectSeq(items, LAMBDA it :
        /\ Strip(it.url) # ""
        /\ \A j \in 1..(IndexOf(items, it) - 1) : ~Same(items[j].url, it.url))

SameString(u, v) == u = v

SameStripped(u, v) == Strip(u) = Strip(v)

FirstN(s, n) == SubSeq(s, 1, Min(n, Len(s)))

PairwiseDistinctUrls(sources) ==
    \A i, j \in 1..Len(sources) : sources[i].url = sources[j].url => i = j

BuiltFrom(sources, selected) ==
    /\ Len(sources) = Len(selected)
    /\ \A i \in 1..Len(sources) :
        sources[i] = [title |-> selected[i].title, url |-> Strip(selected[i].url),
                      source |-> selected[i].source]

\* C14 as stated: for any list and any cap, len(sources) == len(selected_items)
\* <= cap, the source URLs are pairwise distinct, sources[i] is built from
\* selected_items[i], and selected_items are the first occurrences of each
\* URL in input order.
C14_BoundByAnyCap ==
    call.fn = "dedupe_and_cap_sources"
        => /\ BuiltFrom(call.out.sources, call.out.selected_items)
           /\ Len(call.out.sources) <= call.max_sources
           /\ PairwiseDistinctUrls(call.out.sources)
           /\ call.out.selected_items =
                FirstN(FirstOccurrences(call.items, SameString), call.max_sources)

\* the cap in force: 10 for a cap of 0 or None, otherwise the cap brought
\* into 1..25
CapInForce(max_sources) ==
    IF max_sources = 0 THEN 10
    ELSE IF max_sources < 1 THEN 1
    ELSE IF max_sources > 25 THEN 25
    ELSE max_sources

\* C14: len(sources) == len(selected_items) <= the cap in force, the source
\* URLs are pairwise distinct, sources[i] is built from selected_items[i]
\* with its URL stripped, and selected_items are the first items of each
\* non-empty stripped URL in input order, up to the cap in force.
C14_BoundByCapInForce ==
    call.fn = "dedupe_and_cap_sources"
        => /\ BuiltFrom(call.out.sources, call.out.selected_items)
           /\ Len(call.out.sources) <= CapInForce(call.max_sources)
           /\ PairwiseDistinctUrls(call.out.sources)
           /\ call.out.selected_items =
                FirstN(FirstOccurrences(call.items, SameStripped),
                       CapInForce(call.max_sources))

C14_Witness ==
    /\ call.fn = "dedupe_and_cap_sources"
    /\ call.max_sources = 2
    /\ Len(call.items) = 3
    /\ Strip(call.items[1].url) = Strip(call.items[2].url)
    /\ call.items[1].url # call.items[2].url
    /\ Len(call.out.sources) = 2

\* C15: the validator removes every [n] marker with n outside [1, max_index]
\* and keeps the others, so the markers of its result are the markers of the
\* text with 1 <= n <= max_index, and none of them is out of range.
C15_OnlyInRangeMarkersLeft ==
    call.fn = "strip_out_of_range_citations"
        => /\ Markers(call.out) =
                SelectSeq(Markers(call.text), LAMBDA n : 1 <= n /\ n <= call.max_cite)
           /\ \A i \in 1..Len(Markers(call.out)) :
                1 <= Markers(call.out)[i] /\ Markers(call.out)[i] <= call.max_cite

SourcesHeadings == {"h2_sources", "sources_colon", "h3_sources", "h1_sources"}

Headings == SourcesHeadings \cup AllowedHeaders \cup {"h2_other", "h3_theme"}

\* the lines outside every Sources section: a Sources section is a Sources
\* heading and the lines after it up to the next heading
RECURSIVE OutsideSources(_, _)
OutsideSources(lines, in_sources) ==
    IF lines = <<>> THEN <<>>
    ELSE LET ln == Head(lines)
         IN  IF ln.kind \in SourcesHeadings THEN OutsideSources(Tail(lines), TRUE)
             ELSE IF ln.kind \in Headings THEN <<ln>> \o OutsideSources(Tail(lines), FALSE)
             ELSE IF in_sources THEN OutsideSources(Tail(lines), TRUE)
             ELSE <<ln>> \o OutsideSources(Tail(lines), FALSE)

\* C16: the cleaned answer holds no Sources heading of any level and no line
\* of a Sources section, and the removal deletes nothing else: the cleaned
\* answer is what cleaning the answer without its Sources sections gives.
C16_SourcesSectionDeletedOnly ==
    call.fn = "clean_rundown_answer"
        => /\ \A i \in 1..Len(call.out) : call.out[i].kind \notin SourcesHeadings
           /\ call.out = clean_rundown_answer(OutsideSources(call.lines, FALSE))

\* the pairs of a query that are not tracking parameters
NonTracking(query) == SelectSeq(query, LAMBDA kv : Lower(kv[1]) \notin drop_params)

Occurrences(s, x) == Cardinality({i \in 1..Len(s) : s[i] = x})

IsPermutation(s, t) ==
    /\ Len(s) = Len(t)
    /\ \A x \in Range(s) \cup Range(t) : Occurrences(s, x) = Occurrences(t, x)

\* the URLs differ only by tracking parameters, fragment, host casing or the
\* order of their query pairs
DifferOnlyByNoise(u, v) ==
    /\ u.scheme = v.scheme
    /\ Lower(u.netloc) = Lower(v.netloc)
    /\ u.path = v.path
    /\ IsPermutation(NonTracking(u.query), NonTracking(v.query))

\* C20: two URLs that differ only by tracking parameters, fragment, host
\* casing or the order of their query pairs have the same fingerprint.
C20_NoiseKeepsFingerprint ==
    (call.fn = "hash_url" /\ DifferOnlyByNoise(call.url, call.other))
        => call.out = call.other_out

-----------------------------------------------------------------------------
(* The chat turn: claims.  In pipe, survivors is the number of candidates   *)
(* the first filter kept (-1 without a window), widenings counts the times  *)
(* the window was widened, paid_calls the provider calls issued, llm what   *)
(* the synthesizer call did ("none": it was not called).                    *)

Returned == pipe.pc = "returned"

\* C11: in a turn whose window is active and was not explicitly requested,
\* fewer than 4 survivors widen the window exactly once and the returned
\* meta has coverage_thin = true and widened_to_days = 30; 4 or more leave
\* the window alone with coverage_thin = false; the window is never widened
\* more than once.
C11_ThinCoverageSurfaced ==
    (Returned /\ pipe.survivors # -1 /\ pipe.requested_days = 0)
        => /\ pipe.widenings <= 1
           /\ pipe.result.meta.present
           /\ IF pipe.survivors < MinViable
              THEN /\ pipe.widenings = 1
                   /\ pipe.result.meta.coverage_thin
                   /\ pipe.result.meta.widened_to_days = WidenedDays
              ELSE /\ pipe.widenings = 0
                   /\ ~pipe.result.meta.coverage_thin

\* C12: a query with the phrase "last N days" is filtered with the window N
\* clamped to 1..365, which is never widened: the returned meta has
\* time_window_days = N, coverage_thin = false and widened_to_days = null.
C12_ExplicitWindowKept ==
    (Returned /\ pipe.query.phrase = "last N days" /\ pipe.survivors # -1)
        => /\ pipe.time_window_days = Max(1, Min(365, pipe.query.n))
           /\ pipe.widenings = 0
           /\ pipe.result.meta.time_window_days = Max(1, Min(365, pipe.query.n))
           /\ ~pipe.result.meta.coverage_thin
           /\ pipe.result.meta.widened_to_days = 0

\* C17: when the synthesizer call fails, the turn returns a textual error
\* as its answer with an empty source list.
C17_SynthesisFailureHasNoSources ==
    (Returned /\ pipe.llm = "raise")
        => /\ pipe.result.answer = "error"
           /\ pipe.result.sources = <<>>

\* the budget ceiling has been reached when the turn starts, in the tracker
\* of the chat service and in the tracker of the embedding service
AtLimitAtStart ==
    /\ ~check_limits(pipe.stats_at_start[1])
    /\ ~check_limits(pipe.stats_at_start[2])

\* C18: once the budget ceiling has been reached, a turn issues no paid
\* provider call, leaves the recorded statistics unchanged and returns a
\* message with sources == [].
C18_NoPaidCallAtCeiling ==
    (Returned /\ AtLimitAtStart)
        => /\ pipe.paid_calls = 0
           /\ <<cost.chat, cost.embedding>> = pipe.stats_at_start
           /\ pipe.result.sources = <<>>

\* C19: when the query matches no document of the corpus, the turn reports
\* no coverage with sources == [] and meta.sources_used == 0, and the
\* synthesizer is not called.
C19_NoMatchNoCoverage ==
    (/\ Returned
     /\ pipe.result.answer \notin {"empty_corpus", "clarifier"}
     /\ \A i \in 1..Len(pipe.corpus) : ~Matches(pipe.corpus[i]))
        => /\ pipe.result.answer = "no_coverage"
           /\ pipe.result.sources = <<>>
           /\ pipe.result.meta.sources_used = 0
           /\ pipe.llm = "none"

\* C21: canonicalize_url is idempotent, and when its parsing fails it
\* returns the trimmed original string.
C21_CanonicalizeIdempotent ==
    call.fn = "canonicalize_url"
        => /\ call.again = call.out
           /\ call.raised => call.out = StripUrl(call.url)

\* the weights of the terms of a text that are phrases or keywords
RECURSIVE WeightSum(_, _, _)
WeightSum(terms, strong_weight, keyword_weight) ==
    IF terms = {} THEN 0
    ELSE LET x == CHOOSE y \in terms : TRUE
         IN  (IF x \in Range(StrongTerms) THEN strong_weight
              ELSE IF x \in ExcludedTerms THEN 0 ELSE keyword_weight)
             + WeightSum(terms \ {x}, strong_weight, keyword_weight)

\* C22: the relevance gate returns score 0 when the title or the body holds
\* an exclusion keyword, whatever else matches; otherwise the score is the
\* capped sum of the weights of the matching phrases; and a title with the
\* strong phrase "data center" yields the tag "data-center".
C22_ExclusionForcesZero ==
    call.fn = "score_and_tag_article"
        => /\ IF (call.title \cup call.content) \cap ExcludedTerms # {}
              THEN call.out.score = 0
              ELSE call.out.score =
                     Min(WeightSum(call.title, 6, 2) + WeightSum(call.content, 3, 1),
                         ScoreCeiling)
           /\ "data center" \in call.title => "data-center" \in Range(call.out.tags)

-----------------------------------------------------------------------------
(* Two conversations: claims                                                *)

\* the conversation a thread's step is about
ActsOn(t) == IF turn[t].pc = "idle" THEN turn'[t].cid ELSE turn[t].cid

-----------------------------------------------------------------------------
(* Storing a batch: claims                                                  *)

\* C24: a failure to store one document of a batch skips that document
\* only: every document of the batch that is new to the table is in the
\* table afterwards (a proactive fetch knows a document by its url, a sweep
\* by its canonical URL), and the rows of the table before are kept.
C24_OtherDocumentsStillStored ==
    /\ call.fn = "store_articles"
        => /\ SubSeq(call.out, 1, Len(call.rows)) = call.rows
           /\ \A i \in 1..Len(call.batch) : call.batch[i] \in Urls(call.out)
    /\ call.fn = "process_and_store_articles"
        => /\ SubSeq(call.out, 1, Len(call.rows)) = call.rows
           /\ \A i \in 1..Len(call.batch) :
                \E j \in 1..Len(call.out) :
                    canonicalize_url(call.out[j].url) = canonicalize_url(call.batch[i])

-----------------------------------------------------------------------------
(* The semantic path: claims                                                *)

\* C25: the semantic path returns at most k candidates, one per document at
\* most (the hit of smallest distance among the document's hits), in
\* ascending distance.
C25_AtMostKBestPerDocument ==
    call.fn = "retrieve_relevant_articles"
        => /\ Len(call.out) <= call.k
           /\ \A i, j \in 1..Len(call.out) :
                i < j => /\ call.out[i].article_id # call.out[j].article_id
                         /\ call.out[i].distance <= call.out[j].distance
           /\ \A i \in 1..Len(call.out) :
                /\ call.out[i] \in Range(call.hits)
                /\ \A h \in Range(call.hits) :
                     h.article_id = call.out[i].article_id
                         => call.out[i].distance <= h.distance

-----------------------------------------------------------------------------
(* The embedding index: claims                                              *)

\* C26: once the retention sweep has deleted a document, no vector of that
\* document is left in the index, so the semantic path returns no candidate
\* for it.
C26_NoVectorOfDeletedDocument ==
    \A id \in index.removed :
        /\ \A v \in index.vectors : v.article_id # id
        /\ id \notin SemanticCandidates

\* C27: a job that is not forced and in which every embedding and index
\* write succeeded leaves, when it finishes, no document without an
\* embedding that had none when the job started.
C27_JobEmbedsEveryPendingDocument ==
    \A j \in Jobs :
        (index.job[j].pc = "done" /\ ~index.job[j].force /\ index.job[j].all_ok)
            => \A i \in 1..Len(index.rows) :
                  index.rows[i].id \in index.job[j].todo => index.rows[i].has_embedding

\* a job has been started and is not over
JobActive(j) == index.job[j].pc \in {"started", "running", "finishing"}

\* C28: at most one reindex job runs at a time: a request made while a job
\* is running, or started and not yet flagged as running, starts no second
\* job.
C28_OneJobAtATime ==
    \A j, k \in Jobs : (JobActive(j) /\ JobActive(k)) => j = k

-----------------------------------------------------------------------------
(* The cost tracker over months: claims                                     *)

\* C29: the monthly limit looks at the cost of the current month only: in a
\* month with no recorded cost, on a day below the daily limit, record_chat
\* and record_embedding succeed whatever earlier months have cost.
C29_MonthlyLimitOfCurrentMonth ==
    (/\ call.fn \in {"record_chat", "record_embedding"}
     /\ call.stats.monthly[MonthOf(call.today)] = 0
     /\ call.stats.daily[call.today] < DailyLimit)
        => ~call.out.raised

-----------------------------------------------------------------------------
(* The scheduler's lifecycle: claims                                        *)

\* what the calls made so far do on a scheduler that starts stopped: the
\* outcomes, whether it runs, and the initial sweeps launched
RECURSIVE Lifecycle(_, _)
Lifecycle(ops, running) ==
    IF ops = <<>> THEN [outcomes |-> <<>>, running |-> running, sweeps |-> 0]
    ELSE LET op == Head(ops)
             outcome == IF op = "start" THEN (IF running THEN "noop" ELSE "started")
                        ELSE (IF running THEN "stopped" ELSE "noop")
             rest == Lifecycle(Tail(ops), op = "start")
         IN  [outcomes |-> <<outcome>> \o rest.outcomes, running |-> rest.running,
              sweeps |-> rest.sweeps + (IF outcome = "started" THEN 1 ELSE 0)]

\* C30: on a newly constructed scheduler start() completes without error,
\* starts the background scheduler and launches the initial sweep; start()
\* while running is a no-op; stop() while running stops it; stop() on a
\* scheduler that was never started is a no-op.
C30_LifecycleCallsBehave ==
    LET expected == Lifecycle([i \in 1..Len(sched.log) |-> sched.log[i].op], FALSE)
    IN  /\ [i \in 1..Len(sched.log) |-> sched.log[i].outcome] = expected.outcomes
        /\ sched.scheduler_running = expected.running
        /\ sched.initial_sweeps = expected.sweeps

=============================================================================
